---- MODULE Spec2Model ----
(***************************************************************************)
(* nomotic-ci: the policy risk-analysis engine.                            *)
(*                                                                         *)
(*   config_validator.validate          -- semantic validator              *)
(*   drift_checker.check_drift          -- drift classifier                *)
(*   compound_authority.analyze_...     -- compound authority analyzer     *)
(*   entrypoint.main                    -- the pipeline and overall status *)
(*                                                                         *)
(* Floats are kept as integers in hundredths (0.7 is 70, 1.5 is 150): the  *)
(* code only compares them and adds 0.1.  A Python dict is a sequence of   *)
(* <<key, value>> pairs in insertion order with unique keys; a Python list *)
(* is a sequence; a Python set is a set.  None is the empty sequence and a *)
(* present value x is <<x>>.                                               *)
(***************************************************************************)
EXTENDS Integers, Sequences, FiniteSets, TLC

VARIABLES
    pc,                 \* where the run is
    document,           \* the policy document at config_path
    config,             \* the loaded policy
    git,                \* what `git show baseline_ref:path` does
    options,            \* the action's inputs
    faults,             \* the validator checks that throw
    ev_range,           \* outcomes the verdict evaluator can produce
    gov_range,          \* assessments the workflow governor can produce
    hash_order,         \* the order in which this process iterates a set of str
    evlog,              \* the evaluator calls made so far
    validation_report,
    adversarial_report,
    drift_report,
    compound_report,
    bundle,             \* the evidence bundle written
    pr_comment,         \* the comment handed to post_pr_comment
    outputs,            \* the lines appended to $GITHUB_OUTPUT
    exit_code           \* main's return value

vars == <<pc, document, config, git, options, faults, ev_range, gov_range,
          hash_order, evlog, validation_report, adversarial_report,
          drift_report, compound_report, bundle, pr_comment, outputs, exit_code>>

(***************************************************************************)
(* Python helpers                                                          *)
(***************************************************************************)

None == <<>>

Some(x) == <<x>>

Range(s) == {s[i] : i \in DOMAIN s}

RECURSIVE Concat(_)
Concat(ss) == IF ss = <<>> THEN <<>> ELSE Head(ss) \o Concat(Tail(ss))

\* [f(x) for x in s if p(x)] and friends are written as
\* Concat([i \in DOMAIN s |-> IF p THEN <<f>> ELSE <<>>]).

CountSev(items, sev) == Cardinality({i \in DOMAIN items : items[i].severity = sev})

\* dict.keys(), dict.get(k, default)
Keys(d) == {d[i][1] : i \in DOMAIN d}

Get(d, k, default) ==
    IF k \in Keys(d) THEN d[CHOOSE i \in DOMAIN d : d[i][1] = k][2] ELSE default

\* Every name of the model in code-point order: sorted() of a set or list of strings.
Lex ==
    << "admin", "admin_panel", "agent-a", "agent-b", "agent-c", "agent-d",
       "approve", "authenticate", "authority_verification", "authorize",
       "behavioral_consistency", "cascading_impact", "db_a", "db_b", "db_c",
       "default", "delete", "ethical_alignment", "execute", "export",
       "human_override", "incident_detection", "isolation_integrity",
       "precedent_alignment", "query", "read", "resource_boundaries",
       "scope_compliance", "stakeholder_impact", "t01", "t02", "t03", "t04",
       "t05", "t06", "t07", "t08", "t09", "t10", "t11", "temporal_compliance",
       "transfer", "transparency", "unauthorized_system", "update", "write" >>

Sorted(S) == SelectSeq(Lex, LAMBDA x : x \in S)

(***************************************************************************)
(* config_loader: the data model                                           *)
(***************************************************************************)

VALID_DIMENSIONS ==
    { "scope_compliance", "authority_verification", "resource_boundaries",
      "behavioral_consistency", "cascading_impact", "stakeholder_impact",
      "incident_detection", "isolation_integrity", "temporal_compliance",
      "precedent_alignment", "transparency", "human_override",
      "ethical_alignment" }

AgentConfig(id, scope, targets, boundaries, initial_trust, min_trust) ==
    [ agent_id |-> id, scope |-> scope, targets |-> targets,
      boundaries |-> boundaries, initial_trust |-> initial_trust,
      min_trust |-> min_trust ]

GovernanceConfig(agents, weights, vetoes, allow, deny, trust, frameworks) ==
    [ agents |-> agents, dimension_weights |-> weights,
      veto_dimensions |-> vetoes, allow_threshold |-> allow,
      deny_threshold |-> deny, trust_settings |-> trust,
      compliance_frameworks |-> frameworks ]

(***************************************************************************)
(* The verdict evaluator (nomotic.GovernanceRuntime.evaluate): external.   *)
(* A call returns a verdict and a UCS, or throws.                          *)
(***************************************************************************)

Verdicts == {"ALLOW", "DENY", "MODIFY", "ESCALATE", "SUSPEND"}

EvalOk(verdict, ucs) == [raised |-> FALSE, verdict |-> verdict, ucs |-> ucs]

EvalRaise == [raised |-> TRUE, verdict |-> "NONE", ucs |-> 0]

EvalCall(agent_id, action_type, target, outcome) ==
    [ agent_id |-> agent_id, action_type |-> action_type, target |-> target,
      outcome |-> outcome ]

(***************************************************************************)
(* config_validator                                                        *)
(***************************************************************************)

CRITICAL_DIMENSIONS == {"scope_compliance", "authority_verification"}

\* COMPLIANCE_DIMENSION_HINTS: framework -> dict(dimension -> minimum weight)
COMPLIANCE_DIMENSION_HINTS ==
    << <<"HIPAA", << <<"isolation_integrity", 150>>, <<"stakeholder_impact", 150>>,
                     <<"transparency", 100>> >> >>,
       <<"SOC2", << <<"scope_compliance", 150>>, <<"incident_detection", 150>>,
                    <<"transparency", 100>> >> >>,
       <<"PCI-DSS", << <<"resource_boundaries", 150>>, <<"isolation_integrity", 150>>,
                       <<"scope_compliance", 150>> >> >>,
       <<"ISO27001", << <<"scope_compliance", 150>>, <<"authority_verification", 150>>,
                        <<"incident_detection", 150>> >> >> >>

\* weight > 1.5 in _check_missing_critical_vetoes
HighWeight == 150

\* action_count > 5 and target_count > 10 in _check_overprivileged_agents
BroadActionCount == 5

ManyTargetCount == 10

\* trust_settings.get("floor", 0.05)
DefaultFloor == 5

ValidationIssue(severity, check_name, location, message) ==
    [ severity |-> severity, check_name |-> check_name, location |-> location,
      message |-> message ]

\* What one check does: the issues it returns, or the exception it throws,
\* and the evaluator calls it made.
Returned(issues) == [raised |-> FALSE, issues |-> issues, calls |-> <<>>]

Thrown == [raised |-> TRUE, issues |-> <<>>, calls |-> <<>>]

\* Mutant: the comparison is strict, so equal thresholds pass.
_check_threshold_inversion_strict(cfg) ==
    IF cfg.allow_threshold < cfg.deny_threshold
    THEN << ValidationIssue("critical", "threshold_inversion", <<"thresholds">>,
                            <<cfg.allow_threshold, cfg.deny_threshold>>) >>
    ELSE <<>>

_check_threshold_inversion(cfg) ==
    IF cfg.allow_threshold <= cfg.deny_threshold
    THEN << ValidationIssue("critical", "threshold_inversion", <<"thresholds">>,
                            <<cfg.allow_threshold, cfg.deny_threshold>>) >>
    ELSE <<>>

\* Mutant: the contradiction is reported as information.
_check_veto_weight_contradiction_info(cfg) ==
    Concat([i \in DOMAIN cfg.veto_dimensions |->
        LET dim == cfg.veto_dimensions[i]
            weight == Get(cfg.dimension_weights, dim, 0)
        IN  IF weight = 0
            THEN << ValidationIssue("info", "veto_weight_contradiction",
                                    <<"dimensions", "weights", dim>>, <<dim>>) >>
            ELSE <<>>])

_check_veto_weight_contradiction(cfg) ==
    Concat([i \in DOMAIN cfg.veto_dimensions |->
        LET dim == cfg.veto_dimensions[i]
            weight == Get(cfg.dimension_weights, dim, 0)
        IN  IF weight = 0
            THEN << ValidationIssue("warning", "veto_weight_contradiction",
                                    <<"dimensions", "weights", dim>>, <<dim>>) >>
            ELSE <<>>])

\* Mutant: a weight of exactly 1.5 is already high.
_check_missing_critical_vetoes_from(cfg) ==
    Concat([i \in DOMAIN cfg.dimension_weights |->
        LET dim == cfg.dimension_weights[i][1]
            weight == cfg.dimension_weights[i][2]
        IN  IF weight >= HighWeight /\ dim \notin Range(cfg.veto_dimensions)
            THEN << ValidationIssue(
                        IF dim \in CRITICAL_DIMENSIONS THEN "warning" ELSE "info",
                        "missing_critical_veto", <<"dimensions", "vetoes">>,
                        <<dim, weight>>) >>
            ELSE <<>>])

_check_missing_critical_vetoes(cfg) ==
    Concat([i \in DOMAIN cfg.dimension_weights |->
        LET dim == cfg.dimension_weights[i][1]
            weight == cfg.dimension_weights[i][2]
        IN  IF weight > HighWeight /\ dim \notin Range(cfg.veto_dimensions)
            THEN << ValidationIssue(
                        IF dim \in CRITICAL_DIMENSIONS THEN "warning" ELSE "info",
                        "missing_critical_veto", <<"dimensions", "vetoes">>,
                        <<dim, weight>>) >>
            ELSE <<>>])

\* Mutant: reading counts as write access.
WriteActions_with_read ==
    {"read", "write", "update", "delete", "transfer", "execute", "approve"}

WriteActions == {"write", "update", "delete", "transfer", "execute", "approve"}

_check_overlapping_scopes(cfg) ==
    Concat([i \in DOMAIN cfg.agents |->
        Concat([j \in DOMAIN cfg.agents |->
            LET agent_a == cfg.agents[i]
                agent_b == cfg.agents[j]
                a_writes == agent_a.scope \cap WriteActions
                b_writes == agent_b.scope \cap WriteActions
                shared_targets == Range(agent_a.targets) \cap Range(agent_b.targets)
            IN  IF j > i /\ a_writes # {} /\ b_writes # {} /\ shared_targets # {}
                THEN << ValidationIssue("info", "overlapping_scopes",
                            <<"agents", agent_a.agent_id, "scope", "agents",
                              agent_b.agent_id, "scope">>,
                            <<Sorted(shared_targets), Sorted(a_writes),
                              Sorted(b_writes)>>) >>
                ELSE <<>>])])

_check_overprivileged_agents(cfg) ==
    Concat([i \in DOMAIN cfg.agents |->
        LET agent == cfg.agents[i]
            action_count == Cardinality(agent.scope)
            target_count == Len(agent.targets)
        IN  (IF action_count > BroadActionCount
             THEN << ValidationIssue("warning", "overprivileged_agent",
                        <<"agents", agent.agent_id, "scope", "actions">>,
                        <<action_count>>) >>
             ELSE <<>>)
            \o
            (IF target_count > ManyTargetCount
             THEN << ValidationIssue("warning", "overprivileged_agent",
                        <<"agents", agent.agent_id, "scope", "targets">>,
                        <<target_count>>) >>
             ELSE <<>>)])

_check_trust_floor_above_minimum(cfg) ==
    LET floor == Get(cfg.trust_settings, "floor", DefaultFloor)
    IN  Concat([i \in DOMAIN cfg.agents |->
            LET agent == cfg.agents[i]
            IN  IF floor > agent.min_trust
                THEN << ValidationIssue("warning", "trust_floor_above_minimum",
                            <<"trust", "floor", "agents", agent.agent_id>>,
                            <<floor, agent.min_trust>>) >>
                ELSE <<>>])

_check_compliance_dimensions(cfg) ==
    Concat([i \in DOMAIN cfg.compliance_frameworks |->
        LET framework == cfg.compliance_frameworks[i]
            hints == Get(COMPLIANCE_DIMENSION_HINTS, framework, <<>>)
        IN  Concat([h \in DOMAIN hints |->
                LET dim == hints[h][1]
                    min_weight == hints[h][2]
                    actual_weight == Get(cfg.dimension_weights, dim, 0)
                IN  IF actual_weight < min_weight
                    THEN << ValidationIssue("info", "compliance_dimension_alignment",
                                <<"dimensions", "weights", dim>>,
                                <<framework, dim, actual_weight, min_weight>>) >>
                    ELSE <<>>])])

\* Mutant: the in-scope probe reports every verdict other than ALLOW.
_check_simulation_not_allow(cfg, first, o_in, o_out) ==
    IF cfg.agents = <<>> THEN Returned(<<>>)
    ELSE
    LET agent == cfg.agents[1]
        probes_in_scope == agent.targets # <<>> /\ agent.scope # {}
        call_in == EvalCall(agent.agent_id, first, agent.targets[1], o_in)
        call_out == EvalCall(agent.agent_id, "delete", "unauthorized_system", o_out)
        calls_in == IF probes_in_scope THEN <<call_in>> ELSE <<>>
        issues_in ==
            IF probes_in_scope /\ ~o_in.raised /\ o_in.verdict # "ALLOW"
            THEN << ValidationIssue("warning", "simulation_in_scope_denied",
                        <<"agents", agent.agent_id>>,
                        <<first, agent.targets[1], o_in.verdict>>) >>
            ELSE <<>>
        issues_out ==
            IF o_out.verdict = "ALLOW"
            THEN << ValidationIssue("critical", "simulation_unauthorized_allowed",
                        <<"agents", agent.agent_id, "scope">>,
                        <<"delete", "unauthorized_system">>) >>
            ELSE <<>>
    IN  IF probes_in_scope /\ o_in.raised
        THEN [raised |-> TRUE, issues |-> <<>>, calls |-> calls_in]
        ELSE IF o_out.raised
        THEN [raised |-> TRUE, issues |-> <<>>, calls |-> calls_in \o <<call_out>>]
        ELSE [raised |-> FALSE, issues |-> issues_in \o issues_out,
              calls |-> calls_in \o <<call_out>>]

\* _check_simulation: `first` is what next(iter(agent.scope)) yields, o_in and
\* o_out are what the evaluator does on the in-scope and the out-of-scope call.
_check_simulation(cfg, first, o_in, o_out) ==
    IF cfg.agents = <<>> THEN Returned(<<>>)
    ELSE
    LET agent == cfg.agents[1]
        probes_in_scope == agent.targets # <<>> /\ agent.scope # {}
        call_in == EvalCall(agent.agent_id, first, agent.targets[1], o_in)
        call_out == EvalCall(agent.agent_id, "delete", "unauthorized_system", o_out)
        calls_in == IF probes_in_scope THEN <<call_in>> ELSE <<>>
        issues_in ==
            IF probes_in_scope /\ ~o_in.raised /\ o_in.verdict = "DENY"
            THEN << ValidationIssue("warning", "simulation_in_scope_denied",
                        <<"agents", agent.agent_id>>,
                        <<first, agent.targets[1], o_in.verdict>>) >>
            ELSE <<>>
        issues_out ==
            IF o_out.verdict = "ALLOW"
            THEN << ValidationIssue("critical", "simulation_unauthorized_allowed",
                        <<"agents", agent.agent_id, "scope">>,
                        <<"delete", "unauthorized_system">>) >>
            ELSE <<>>
    IN  IF probes_in_scope /\ o_in.raised
        THEN [raised |-> TRUE, issues |-> <<>>, calls |-> calls_in]
        ELSE IF o_out.raised
        THEN [raised |-> TRUE, issues |-> <<>>, calls |-> calls_in \o <<call_out>>]
        ELSE [raised |-> FALSE, issues |-> issues_in \o issues_out,
              calls |-> calls_in \o <<call_out>>]

\* The `checks` list of validate, in its order.
checks ==
    << "_check_threshold_inversion", "_check_veto_weight_contradiction",
       "_check_missing_critical_vetoes", "_check_overlapping_scopes",
       "_check_overprivileged_agents", "_check_trust_floor_above_minimum",
       "_check_compliance_dimensions", "_check_simulation" >>

\* check(config) for one entry of the list; a check in `flt` throws.
RunCheck(check, cfg, flt, first, o_in, o_out) ==
    IF check \in flt THEN Thrown
    ELSE CASE check = "_check_threshold_inversion" ->
                Returned(_check_threshold_inversion(cfg))
           [] check = "_check_veto_weight_contradiction" ->
                Returned(_check_veto_weight_contradiction(cfg))
           [] check = "_check_missing_critical_vetoes" ->
                Returned(_check_missing_critical_vetoes(cfg))
           [] check = "_check_overlapping_scopes" ->
                Returned(_check_overlapping_scopes(cfg))
           [] check = "_check_overprivileged_agents" ->
                Returned(_check_overprivileged_agents(cfg))
           [] check = "_check_trust_floor_above_minimum" ->
                Returned(_check_trust_floor_above_minimum(cfg))
           [] check = "_check_compliance_dimensions" ->
                Returned(_check_compliance_dimensions(cfg))
           [] check = "_check_simulation" ->
                _check_simulation(cfg, first, o_in, o_out)

ValidationReport ==
    [ issues |-> <<>>, status |-> "pass", critical_count |-> 0,
      warning_count |-> 0, info_count |-> 0, checks_run |-> 0 ]

\* Mutant: a check that throws is reported as critical.
InternalError_critical ==
    ValidationIssue("critical", "internal_error", <<"internal">>, <<>>)

InternalError ==
    ValidationIssue("warning", "internal_error", <<"internal">>, <<>>)

\* The body of `for issue in issues:`.
RECURSIVE AddIssues(_, _)
AddIssues(report, issues) ==
    IF issues = <<>> THEN report
    ELSE LET issue == Head(issues)
             counted ==
                 IF issue.severity = "critical"
                 THEN [report EXCEPT !.critical_count = @ + 1]
                 ELSE IF issue.severity = "warning"
                 THEN [report EXCEPT !.warning_count = @ + 1]
                 ELSE [report EXCEPT !.info_count = @ + 1]
         IN  AddIssues([counted EXCEPT !.issues = Append(@, issue)], Tail(issues))

\* Mutant: the exception is swallowed without an issue.
OnCheckException_silent(report) == report

\* The except branch of the loop body.
OnCheckException(report) ==
    [report EXCEPT !.issues = Append(@, InternalError), !.warning_count = @ + 1]

\* One iteration of `for check in checks:`.
CheckStep(report, result) ==
    LET started == [report EXCEPT !.checks_run = @ + 1]
    IN  IF result.raised THEN OnCheckException(started)
        ELSE AddIssues(started, result.issues)

\* Mutant: the first check that throws ends the loop.
RECURSIVE CheckLoop_aborting(_, _)
CheckLoop_aborting(report, results) ==
    IF results = <<>> THEN report
    ELSE IF Head(results).raised THEN CheckStep(report, Head(results))
    ELSE CheckLoop_aborting(CheckStep(report, Head(results)), Tail(results))

RECURSIVE CheckLoop(_, _)
CheckLoop(report, results) ==
    IF results = <<>> THEN report
    ELSE CheckLoop(CheckStep(report, Head(results)), Tail(results))

\* Mutant: warnings are looked at before criticals.
DetermineStatus_warnings_first(report) ==
    [report EXCEPT !.status =
        IF report.warning_count > 0 THEN "warn"
        ELSE IF report.critical_count > 0 THEN "fail"
        ELSE "pass"]

DetermineStatus(report) ==
    [report EXCEPT !.status =
        IF report.critical_count > 0 THEN "fail"
        ELSE IF report.warning_count > 0 THEN "warn"
        ELSE "pass"]

\* validate(config), the checks taken in `order`.
ValidateIn(order, cfg, flt, first, o_in, o_out) ==
    LET results == [i \in DOMAIN order |->
                        RunCheck(order[i], cfg, flt, first, o_in, o_out)]
    IN  DetermineStatus(CheckLoop(ValidationReport, results))

validate(cfg, flt, first, o_in, o_out) ==
    ValidateIn(checks, cfg, flt, first, o_in, o_out)

\* The evaluator calls validate makes (all in _check_simulation).
ValidateCalls(cfg, flt, first, o_in, o_out) ==
    RunCheck("_check_simulation", cfg, flt, first, o_in, o_out).calls

\* Iterating a set of str: its elements in the process's hash order.
Iter(order, S) == SelectSeq(order, LAMBDA x : x \in S)

\* next(iter(agent.scope)) if agent.scope else "read"
IterFirst(order, scope) == IF scope = {} THEN "read" ELSE Iter(order, scope)[1]

(***************************************************************************)
(* drift_checker                                                           *)
(***************************************************************************)

DANGEROUS_ACTIONS == {"delete", "transfer", "execute", "approve"}

SECURITY_CRITICAL_DIMENSIONS ==
    { "scope_compliance", "authority_verification", "incident_detection",
      "isolation_integrity" }

\* str(x), for display
Str(x) == <<"str", x>>

DriftFinding(category, severity, path, baseline_value, current_value, description, risk_assessment) ==
    [ category |-> category, severity |-> severity, path |-> path,
      baseline_value |-> baseline_value, current_value |-> current_value,
      description |-> description, risk_assessment |-> risk_assessment ]

\* load_config_from_string on what git printed: the config, or an exception
\* (yaml error, ConfigError) when the document has errors.
LoadRaises(doc) == doc.errors # <<>>

\* Mutant: a baseline that does not load is read as an empty policy.
_load_baseline_empty(g) ==
    IF g.status # "ok" THEN None
    ELSE IF LoadRaises(g.document)
    THEN Some(GovernanceConfig(<<>>, <<>>, <<>>, 70, 30, <<>>, <<>>))
    ELSE g.document.config

\* _load_baseline: the baseline config, or None.  A non-zero exit status, a
\* timeout, a missing git binary and any exception of the loader all give None.
_load_baseline(g) ==
    IF g.status # "ok" THEN None
    ELSE IF LoadRaises(g.document) THEN None
    ELSE g.document.config

\* {a.agent_id: a for a in baseline.agents}.get(id): the last agent of that id.
AgentById(agents, id) ==
    LET hits == {i \in DOMAIN agents : agents[i].agent_id = id}
    IN  IF hits = {} THEN None
        ELSE Some(agents[CHOOSE i \in hits : \A j \in hits : j <= i])

\* Mutant: critical only when every new action is dangerous.
ScopeExpansionSeverity_all(new_actions) ==
    IF new_actions \subseteq DANGEROUS_ACTIONS THEN "critical" ELSE "warning"

\* has_dangerous = bool(new_actions & DANGEROUS_ACTIONS) and the severity
ScopeExpansionSeverity(new_actions) ==
    IF (new_actions \cap DANGEROUS_ACTIONS) # {} THEN "critical" ELSE "warning"

_check_scope_changes(baseline, current) ==
    Concat([i \in DOMAIN current.agents |->
        LET agent == current.agents[i]
            found == AgentById(baseline.agents, agent.agent_id)
        IN  IF found = None THEN <<>>
            ELSE
            LET base_agent == found[1]
                new_actions == agent.scope \ base_agent.scope
                has_dangerous == (new_actions \cap DANGEROUS_ACTIONS) # {}
                new_targets == Range(agent.targets) \ Range(base_agent.targets)
                new_boundaries ==
                    Range(agent.boundaries) \ Range(base_agent.boundaries)
            IN  (IF new_actions # {}
                 THEN << DriftFinding("scope_expansion",
                            ScopeExpansionSeverity(new_actions),
                            <<"agents", agent.agent_id, "scope", "actions">>,
                            Str(Sorted(base_agent.scope)), Str(Sorted(agent.scope)),
                            <<"gained new actions", Sorted(new_actions)>>,
                            IF has_dangerous
                            THEN <<"dangerous", Sorted(new_actions \cap DANGEROUS_ACTIONS)>>
                            ELSE <<"non-dangerous">>) >>
                 ELSE <<>>)
                \o
                (IF new_targets # {}
                 THEN << DriftFinding("scope_expansion", "warning",
                            <<"agents", agent.agent_id, "scope", "targets">>,
                            Str(Sorted(Range(base_agent.targets))),
                            Str(Sorted(Range(agent.targets))),
                            <<"gained new targets", Sorted(new_targets)>>,
                            <<"additional resources">>) >>
                 ELSE <<>>)
                \o
                (IF new_boundaries # {}
                 THEN << DriftFinding("scope_expansion", "warning",
                            <<"agents", agent.agent_id, "scope", "boundaries">>,
                            Str(Sorted(Range(base_agent.boundaries))),
                            Str(Sorted(Range(agent.boundaries))),
                            <<"gained new boundaries", Sorted(new_boundaries)>>,
                            <<"boundary set expanded">>) >>
                 ELSE <<>>)])

\* Mutant: a raised deny threshold is reported like a raised allow threshold.
_check_threshold_changes_symmetric(baseline, current) ==
    (IF current.allow_threshold < baseline.allow_threshold
     THEN << DriftFinding("threshold_relaxation", "warning", <<"thresholds", "allow">>,
                Str(baseline.allow_threshold), Str(current.allow_threshold),
                <<"allow threshold decreased">>, <<"less confidence needed">>) >>
     ELSE IF current.allow_threshold > baseline.allow_threshold
     THEN << DriftFinding("threshold_strictening", "info", <<"thresholds", "allow">>,
                Str(baseline.allow_threshold), Str(current.allow_threshold),
                <<"allow threshold increased">>, <<"stricter">>) >>
     ELSE <<>>)
    \o
    (IF current.deny_threshold < baseline.deny_threshold
     THEN << DriftFinding("threshold_relaxation", "warning", <<"thresholds", "deny">>,
                Str(baseline.deny_threshold), Str(current.deny_threshold),
                <<"deny threshold decreased">>, <<"more ambiguous zone">>) >>
     ELSE IF current.deny_threshold > baseline.deny_threshold
     THEN << DriftFinding("threshold_strictening", "info", <<"thresholds", "deny">>,
                Str(baseline.deny_threshold), Str(current.deny_threshold),
                <<"deny threshold increased">>, <<"stricter">>) >>
     ELSE <<>>)

_check_threshold_changes(baseline, current) ==
    (IF current.allow_threshold < baseline.allow_threshold
     THEN << DriftFinding("threshold_relaxation", "warning", <<"thresholds", "allow">>,
                Str(baseline.allow_threshold), Str(current.allow_threshold),
                <<"allow threshold decreased">>, <<"less confidence needed">>) >>
     ELSE IF current.allow_threshold > baseline.allow_threshold
     THEN << DriftFinding("threshold_strictening", "info", <<"thresholds", "allow">>,
                Str(baseline.allow_threshold), Str(current.allow_threshold),
                <<"allow threshold increased">>, <<"stricter">>) >>
     ELSE <<>>)
    \o
    (IF current.deny_threshold < baseline.deny_threshold
     THEN << DriftFinding("threshold_relaxation", "warning", <<"thresholds", "deny">>,
                Str(baseline.deny_threshold), Str(current.deny_threshold),
                <<"deny threshold decreased">>, <<"more ambiguous zone">>) >>
     ELSE <<>>)

\* Mutant: a removed veto is only a warning.
VetoRemovalSeverity_soft == "warning"

\* severity="critical" of a veto_removal finding
VetoRemovalSeverity == "critical"

\* Mutant: the two lists are compared position by position.
ListDifference_positional(xs, ys) ==
    Sorted({xs[i] : i \in {j \in DOMAIN xs : j \notin DOMAIN ys \/ ys[j] # xs[j]}})

\* sorted(set(xs) - set(ys))
ListDifference(xs, ys) == Sorted(Range(xs) \ Range(ys))

_check_veto_changes(baseline, current) ==
    LET baseline_vetoes == Range(baseline.veto_dimensions)
        current_vetoes == Range(current.veto_dimensions)
        removed == ListDifference(baseline.veto_dimensions, current.veto_dimensions)
        added == ListDifference(current.veto_dimensions, baseline.veto_dimensions)
    IN  [i \in DOMAIN removed |->
            DriftFinding("veto_removal", VetoRemovalSeverity, <<"dimensions", "vetoes">>,
                Str(Sorted(baseline_vetoes)), Str(Sorted(current_vetoes)),
                <<"veto removed", removed[i]>>, <<"hard safety boundary removed">>)]
        \o
        [i \in DOMAIN added |->
            DriftFinding("veto_addition", "info", <<"dimensions", "vetoes">>,
                Str(Sorted(baseline_vetoes)), Str(Sorted(current_vetoes)),
                <<"veto added", added[i]>>, <<"hard safety boundary added">>)]

\* Mutant: a dimension that current does not weight is skipped.
_check_weight_changes_present(baseline, current) ==
    Concat([i \in DOMAIN baseline.dimension_weights |->
        LET dim == baseline.dimension_weights[i][1]
            base_weight == baseline.dimension_weights[i][2]
            curr_weight == Get(current.dimension_weights, dim, base_weight)
            is_security == dim \in SECURITY_CRITICAL_DIMENSIONS
        IN  IF curr_weight < base_weight
            THEN << DriftFinding("weight_reduction",
                        IF is_security THEN "warning" ELSE "info",
                        <<"dimensions", "weights", dim>>,
                        Str(base_weight), Str(curr_weight),
                        <<"weight decreased", dim>>,
                        IF is_security THEN <<"security-critical">>
                        ELSE <<"de-emphasized">>) >>
            ELSE <<>>])

_check_weight_changes(baseline, current) ==
    Concat([i \in DOMAIN baseline.dimension_weights |->
        LET dim == baseline.dimension_weights[i][1]
            base_weight == baseline.dimension_weights[i][2]
            curr_weight == Get(current.dimension_weights, dim, 0)
            is_security == dim \in SECURITY_CRITICAL_DIMENSIONS
        IN  IF curr_weight < base_weight
            THEN << DriftFinding("weight_reduction",
                        IF is_security THEN "warning" ELSE "info",
                        <<"dimensions", "weights", dim>>,
                        Str(base_weight), Str(curr_weight),
                        <<"weight decreased", dim>>,
                        IF is_security THEN <<"security-critical">>
                        ELSE <<"de-emphasized">>) >>
            ELSE <<>>])

AgentIdsOf(cfg) == {cfg.agents[i].agent_id : i \in DOMAIN cfg.agents}

\* Mutant: a new agent holding a dangerous action is reported as a warning.
_check_agent_additions_removals_graded(baseline, current) ==
    LET baseline_ids == AgentIdsOf(baseline)
        current_ids == AgentIdsOf(current)
        added == Sorted(current_ids \ baseline_ids)
        removed == Sorted(baseline_ids \ current_ids)
    IN  [i \in DOMAIN added |->
            LET agent == current.agents[CHOOSE k \in DOMAIN current.agents :
                            /\ current.agents[k].agent_id = added[i]
                            /\ \A j \in 1..(k - 1) :
                                   current.agents[j].agent_id # added[i]]
            IN  DriftFinding("agent_added",
                    IF (agent.scope \cap DANGEROUS_ACTIONS) # {}
                    THEN "warning" ELSE "info",
                    <<"agents", added[i]>>,
                    <<"(not present)">>,
                    <<Sorted(agent.scope), agent.targets>>,
                    <<"new agent", added[i]>>,
                    <<Sorted(agent.scope), agent.targets>>)]
        \o
        [i \in DOMAIN removed |->
            DriftFinding("agent_removed", "info", <<"agents", removed[i]>>,
                <<"(present)">>, <<"(removed)">>,
                <<"agent removed", removed[i]>>, <<"definition removed">>)]

_check_agent_additions_removals(baseline, current) ==
    LET baseline_ids == AgentIdsOf(baseline)
        current_ids == AgentIdsOf(current)
        added == Sorted(current_ids \ baseline_ids)
        removed == Sorted(baseline_ids \ current_ids)
    IN  [i \in DOMAIN added |->
            LET agent == current.agents[CHOOSE k \in DOMAIN current.agents :
                            /\ current.agents[k].agent_id = added[i]
                            /\ \A j \in 1..(k - 1) :
                                   current.agents[j].agent_id # added[i]]
            IN  DriftFinding("agent_added", "info", <<"agents", added[i]>>,
                    <<"(not present)">>,
                    <<Sorted(agent.scope), agent.targets>>,
                    <<"new agent", added[i]>>,
                    <<Sorted(agent.scope), agent.targets>>)]
        \o
        [i \in DOMAIN removed |->
            DriftFinding("agent_removed", "info", <<"agents", removed[i]>>,
                <<"(present)">>, <<"(removed)">>,
                <<"agent removed", removed[i]>>, <<"definition removed">>)]

\* The defaults of trust_settings.get in _check_trust_changes.
DefaultViolationDecrement == 5

DefaultSuccessIncrement == 1

DefaultCeiling == 95

\* Mutant: the four tests form one if/elif chain, so only the first
\* relaxation found is reported.
_check_trust_changes_chained(baseline, current) ==
    LET base_trust == baseline.trust_settings
        curr_trust == current.trust_settings
        base_vd == Get(base_trust, "violation_decrement", DefaultViolationDecrement)
        curr_vd == Get(curr_trust, "violation_decrement", DefaultViolationDecrement)
        base_si == Get(base_trust, "success_increment", DefaultSuccessIncrement)
        curr_si == Get(curr_trust, "success_increment", DefaultSuccessIncrement)
        base_ceil == Get(base_trust, "ceiling", DefaultCeiling)
        curr_ceil == Get(curr_trust, "ceiling", DefaultCeiling)
        base_floor == Get(base_trust, "floor", DefaultFloor)
        curr_floor == Get(curr_trust, "floor", DefaultFloor)
        Relaxed(key, base, curr, what) ==
            << DriftFinding("trust_relaxation", "warning", <<"trust", key>>,
                   Str(base), Str(curr), <<key, what>>, <<what>>) >>
    IN  IF curr_vd < base_vd
        THEN Relaxed("violation_decrement", base_vd, curr_vd, "decreased")
        ELSE IF curr_si > base_si
        THEN Relaxed("success_increment", base_si, curr_si, "increased")
        ELSE IF curr_ceil > base_ceil
        THEN Relaxed("ceiling", base_ceil, curr_ceil, "increased")
        ELSE IF curr_floor < base_floor
        THEN Relaxed("floor", base_floor, curr_floor, "decreased")
        ELSE <<>>

_check_trust_changes(baseline, current) ==
    LET base_trust == baseline.trust_settings
        curr_trust == current.trust_settings
        base_vd == Get(base_trust, "violation_decrement", DefaultViolationDecrement)
        curr_vd == Get(curr_trust, "violation_decrement", DefaultViolationDecrement)
        base_si == Get(base_trust, "success_increment", DefaultSuccessIncrement)
        curr_si == Get(curr_trust, "success_increment", DefaultSuccessIncrement)
        base_ceil == Get(base_trust, "ceiling", DefaultCeiling)
        curr_ceil == Get(curr_trust, "ceiling", DefaultCeiling)
        base_floor == Get(base_trust, "floor", DefaultFloor)
        curr_floor == Get(curr_trust, "floor", DefaultFloor)
        Relaxed(key, base, curr, what) ==
            << DriftFinding("trust_relaxation", "warning", <<"trust", key>>,
                   Str(base), Str(curr), <<key, what>>, <<what>>) >>
    IN  (IF curr_vd < base_vd
         THEN Relaxed("violation_decrement", base_vd, curr_vd, "decreased")
         ELSE <<>>)
        \o
        (IF curr_si > base_si
         THEN Relaxed("success_increment", base_si, curr_si, "increased")
         ELSE <<>>)
        \o
        (IF curr_ceil > base_ceil
         THEN Relaxed("ceiling", base_ceil, curr_ceil, "increased")
         ELSE <<>>)
        \o
        (IF curr_floor < base_floor
         THEN Relaxed("floor", base_floor, curr_floor, "decreased")
         ELSE <<>>)

NoBaselineSummary == "No baseline found - first governance configuration."

NoDriftSummary == "No configuration drift detected."

DriftSummary == "Configuration drift detected"

\* Mutant: informational findings are not counted.
DriftReport_uncounted(drift_detected, findings, critical, warning, info, headline) ==
    [ drift_detected |-> critical + warning > 0, findings |-> findings,
      critical_count |-> critical, warning_count |-> warning,
      info_count |-> 0,
      summary_text |->
          [ headline |-> headline,
            lines |-> [i \in DOMAIN findings |->
                          <<findings[i].severity, findings[i].category>>] ] ]

DriftReport(drift_detected, findings, critical, warning, info, headline) ==
    [ drift_detected |-> drift_detected, findings |-> findings,
      critical_count |-> critical, warning_count |-> warning,
      info_count |-> info,
      summary_text |->
          [ headline |-> headline,
            lines |-> [i \in DOMAIN findings |->
                          <<findings[i].severity, findings[i].category>>] ] ]

\* The findings of check_drift once a baseline is loaded.
DriftFindings(baseline, current) ==
    _check_scope_changes(baseline, current)
    \o _check_threshold_changes(baseline, current)
    \o _check_veto_changes(baseline, current)
    \o _check_weight_changes(baseline, current)
    \o _check_agent_additions_removals(baseline, current)
    \o _check_trust_changes(baseline, current)

\* Mutant: without a baseline the whole policy counts as drift.
NoBaselineReport_drift == DriftReport(TRUE, <<>>, 0, 0, 0, DriftSummary)

\* DriftReport(drift_detected=False, summary_text="No baseline found ...")
NoBaselineReport == DriftReport(FALSE, <<>>, 0, 0, 0, NoBaselineSummary)

check_drift(current_config, g) ==
    LET baseline_config == _load_baseline(g)
    IN  IF baseline_config = None
        THEN NoBaselineReport
        ELSE LET findings == DriftFindings(baseline_config[1], current_config)
             IN  DriftReport(Len(findings) > 0, findings,
                             CountSev(findings, "critical"),
                             CountSev(findings, "warning"),
                             CountSev(findings, "info"),
                             IF findings # <<>> THEN DriftSummary
                             ELSE NoDriftSummary)

(***************************************************************************)
(* compound_authority                                                      *)
(***************************************************************************)

Combination(required_actions, capability) ==
    [required_actions |-> required_actions, capability |-> capability]

DANGEROUS_COMBINATIONS ==
    << Combination({"read", "write"}, "effective_update"),
       Combination({"read", "export"}, "data_exfiltration"),
       Combination({"delete", "write"}, "data_replacement"),
       Combination({"read", "transfer"}, "data_movement"),
       Combination({"authenticate", "authorize", "execute"}, "full_privilege_chain"),
       Combination({"read", "delete"}, "targeted_deletion"),
       Combination({"query", "write"}, "query_driven_modification") >>

CompoundAuthorityFinding(severity, agents_involved, capabilities_combined, resulting_capability, description) ==
    [ severity |-> severity, agents_involved |-> agents_involved,
      capabilities_combined |-> capabilities_combined,
      resulting_capability |-> resulting_capability,
      description |-> description ]

\* A description: the f-string it is formatted from and the values put in.
Description(template, args) == [template |-> template, args |-> args]

\* capability in ("full_privilege_chain", "data_exfiltration", "data_replacement")
SevereCapabilities ==
    {"full_privilege_chain", "data_exfiltration", "data_replacement"}

CrossAgentSeverity(capability) ==
    IF capability \in SevereCapabilities THEN "critical" ELSE "warning"

\* Mutant: a single agent's combination is rated like a cross-agent one.
SingleAgentSeverity_cross(capability) ==
    IF capability \in SevereCapabilities THEN "critical" ELSE "warning"

SingleAgentSeverity(capability) ==
    IF capability \in SevereCapabilities THEN "warning" ELSE "info"

\* Mutant: the single-agent exclusion is dropped.
RequiresBoth_any(required_actions, scope_a, scope_b) ==
    required_actions \subseteq (scope_a \cup scope_b)

\* The two tests on a combination in _analyze_cross_agent.
RequiresBoth(required_actions, scope_a, scope_b) ==
    /\ required_actions \subseteq (scope_a \cup scope_b)
    /\ ~(required_actions \subseteq scope_a \/ required_actions \subseteq scope_b)

\* What the cross-agent loop appends for the pair (i, j) of combinations().
CrossAgentPair(cfg, i, j) ==
    LET agent_a == cfg.agents[i]
        agent_b == cfg.agents[j]
        shared_targets == Range(agent_a.targets) \cap Range(agent_b.targets)
    IN  IF shared_targets = {} THEN <<>>
        ELSE Concat([c \in DOMAIN DANGEROUS_COMBINATIONS |->
                LET required_actions == DANGEROUS_COMBINATIONS[c].required_actions
                    capability == DANGEROUS_COMBINATIONS[c].capability
                IN  IF RequiresBoth(required_actions, agent_a.scope, agent_b.scope)
                    THEN << [ finding |->
                                CompoundAuthorityFinding(
                                    CrossAgentSeverity(capability),
                                    <<agent_a.agent_id, agent_b.agent_id>>,
                                    Sorted(required_actions), capability,
                                    Description("on shared targets",
                                        << <<agent_a.agent_id>>,
                                           Sorted(required_actions \cap agent_a.scope),
                                           <<agent_b.agent_id>>,
                                           Sorted(required_actions \cap agent_b.scope),
                                           Sorted(shared_targets) >>)),
                              risk |->
                                [ agents |-> <<agent_a.agent_id, agent_b.agent_id>>,
                                  shared_targets |-> Sorted(shared_targets),
                                  capability |-> capability,
                                  severity |-> CrossAgentSeverity(capability) ] ] >>
                    ELSE <<>>])

\* _analyze_cross_agent: (findings, risks), kept as one list of pairs.
_analyze_cross_agent(cfg) ==
    Concat([i \in DOMAIN cfg.agents |->
        Concat([j \in DOMAIN cfg.agents |->
            IF i < j THEN CrossAgentPair(cfg, i, j) ELSE <<>>])])

_analyze_single_agent_compounds(cfg) ==
    Concat([i \in DOMAIN cfg.agents |->
        Concat([c \in DOMAIN DANGEROUS_COMBINATIONS |->
            LET agent == cfg.agents[i]
                required_actions == DANGEROUS_COMBINATIONS[c].required_actions
                capability == DANGEROUS_COMBINATIONS[c].capability
            IN  IF required_actions \subseteq agent.scope
                THEN << CompoundAuthorityFinding(
                            SingleAgentSeverity(capability), <<agent.agent_id>>,
                            Sorted(required_actions), capability,
                            Description("has combined capabilities",
                                <<agent.agent_id, Sorted(required_actions)>>)) >>
                ELSE <<>>])])

\* The workflow governor (nomotic.WorkflowGovernor.assess_workflow): external.
\* It returns compound-authority flags and risk factors.
Assessment(flags, risk_factors) == [flags |-> flags, risk_factors |-> risk_factors]

NoAssessment == Assessment(<<>>, <<>>)

Flag(severity, methods_chained, capability) ==
    [ severity |-> severity, methods_chained |-> methods_chained,
      resulting_capability |-> capability, description |-> "chained methods" ]

\* ucs_values[-1] > ucs_values[0] + 0.1
EscalationRise == 10

\* len(ucs_values) >= 3
EscalationSteps == 3

\* len(agent.scope) < 2: the agent is not simulated
WorkflowMinActions == 2

\* Mutant: a rise of exactly 0.1 counts as an escalation.
Escalates_from_rise(ucs_values) ==
    /\ Len(ucs_values) >= EscalationSteps
    /\ \A i \in 1..(Len(ucs_values) - 1) : ucs_values[i] <= ucs_values[i + 1]
    /\ ucs_values[Len(ucs_values)] >= ucs_values[1] + EscalationRise

\* The escalation test on the UCS values of the completed steps.
Escalates(ucs_values) ==
    /\ Len(ucs_values) >= EscalationSteps
    /\ \A i \in 1..(Len(ucs_values) - 1) : ucs_values[i] <= ucs_values[i + 1]
    /\ ucs_values[Len(ucs_values)] > ucs_values[1] + EscalationRise

\* One agent's pass through the loop of _analyze_workflows.  `outcomes` is
\* what the evaluator does at each step, `assessment` what the governor says.
\* The evaluator's first exception ends the pass (and the analysis).
WorkflowOfAgent(agent, outcomes, assessment) ==
    LET actions_list == Sorted(agent.scope)
        TargetAt(i) ==
            IF agent.targets # <<>>
            THEN agent.targets[((i - 1) % Len(agent.targets)) + 1]
            ELSE "default"
        failing == {i \in DOMAIN outcomes : outcomes[i].raised}
        last == IF failing = {} THEN Len(actions_list)
                ELSE CHOOSE i \in failing : \A k \in failing : i <= k
        calls == [i \in 1..last |->
                    EvalCall(agent.agent_id, actions_list[i], TargetAt(i), outcomes[i])]
        ucs_values == [i \in DOMAIN outcomes |-> outcomes[i].ucs]
        flag_findings ==
            [f \in DOMAIN assessment.flags |->
                CompoundAuthorityFinding(
                    IF assessment.flags[f].severity \in {"critical", "warning"}
                    THEN assessment.flags[f].severity ELSE "info",
                    <<agent.agent_id>>, assessment.flags[f].methods_chained,
                    assessment.flags[f].resulting_capability,
                    Description("workflow",
                        <<agent.agent_id, assessment.flags[f].description>>))]
        risks ==
            IF assessment.risk_factors # <<>> \/ assessment.flags # <<>>
            THEN << [ agent |-> agent.agent_id,
                      risk_factors |-> assessment.risk_factors,
                      compound_flags |-> assessment.flags ] >>
            ELSE <<>>
        escalation ==
            IF Escalates(ucs_values)
            THEN << CompoundAuthorityFinding("info", <<agent.agent_id>>,
                        actions_list, "authority_escalation",
                        Description("shows increasing UCS",
                            <<agent.agent_id, ucs_values[1],
                              ucs_values[Len(ucs_values)]>>)) >>
            ELSE <<>>
    IN  IF Cardinality(agent.scope) < WorkflowMinActions
        THEN [raised |-> FALSE, findings |-> <<>>, risks |-> <<>>, calls |-> <<>>]
        ELSE IF failing # {}
        THEN [raised |-> TRUE, findings |-> <<>>, risks |-> <<>>, calls |-> calls]
        ELSE [raised |-> FALSE, findings |-> flag_findings \o escalation,
              risks |-> risks, calls |-> calls]

\* _analyze_workflows: the agents in order; env[i] is the evaluator's and the
\* governor's behaviour while agent i is simulated.
\* Mutant: completed_steps is created once, before the loop over the agents,
\* so an agent's escalation test also sees the steps of the agents before it.
RECURSIVE WorkflowLoop_shared_steps(_, _, _, _)
WorkflowLoop_shared_steps(cfg, env, i, acc) ==
    IF i > Len(cfg.agents) THEN acc
    ELSE LET agent == cfg.agents[i]
             own == WorkflowOfAgent(agent, env[i].outcomes, env[i].assessment)
             own_ucs == [k \in DOMAIN env[i].outcomes |-> env[i].outcomes[k].ucs]
             all_ucs == [k \in DOMAIN acc.calls |-> acc.calls[k].outcome.ucs] \o own_ucs
             simulated == ~own.raised /\ Cardinality(agent.scope) >= WorkflowMinActions
             escalation ==
                 IF simulated /\ Escalates(all_ucs)
                 THEN << CompoundAuthorityFinding("info", <<agent.agent_id>>,
                             Sorted(agent.scope), "authority_escalation",
                             Description("shows increasing UCS",
                                 <<agent.agent_id, all_ucs[1],
                                   all_ucs[Len(all_ucs)]>>)) >>
                 ELSE <<>>
             kept == SelectSeq(own.findings,
                         LAMBDA f : f.description.template # "shows increasing UCS")
             one == [own EXCEPT !.findings = IF simulated THEN kept \o escalation
                                             ELSE own.findings]
             next == [ raised |-> one.raised,
                       findings |-> acc.findings \o one.findings,
                       risks |-> acc.risks \o one.risks,
                       calls |-> acc.calls \o one.calls ]
         IN  IF one.raised THEN next
             ELSE WorkflowLoop_shared_steps(cfg, env, i + 1, next)

RECURSIVE WorkflowLoop(_, _, _, _)
WorkflowLoop(cfg, env, i, acc) ==
    IF i > Len(cfg.agents) THEN acc
    ELSE LET one == WorkflowOfAgent(cfg.agents[i], env[i].outcomes, env[i].assessment)
             next == [ raised |-> one.raised,
                       findings |-> acc.findings \o one.findings,
                       risks |-> acc.risks \o one.risks,
                       calls |-> acc.calls \o one.calls ]
         IN  IF one.raised THEN next ELSE WorkflowLoop(cfg, env, i + 1, next)

_analyze_workflows(cfg, env) ==
    WorkflowLoop(cfg, env, 1,
        [raised |-> FALSE, findings |-> <<>>, risks |-> <<>>, calls |-> <<>>])

CompoundSummary == "Compound authority analysis"

NoCompoundSummary == "No compound authority vulnerabilities detected."

CompoundAuthorityReport(findings, cross_agent_risks, workflow_risks) ==
    [ findings |-> findings,
      critical_count |-> CountSev(findings, "critical"),
      warning_count |-> CountSev(findings, "warning"),
      cross_agent_risks |-> cross_agent_risks,
      workflow_risks |-> workflow_risks,
      summary_text |->
          [ headline |-> IF findings # <<>> THEN CompoundSummary
                         ELSE NoCompoundSummary,
            lines |-> [i \in DOMAIN findings |->
                          <<findings[i].severity, findings[i].resulting_capability>>] ] ]

\* analyze_compound_authority: the report, or the exception that leaves it
\* (nothing in it or in its callees catches), and the evaluator calls made.
analyze_compound_authority(cfg, env) ==
    LET cross == _analyze_cross_agent(cfg)
        cross_findings == [k \in DOMAIN cross |-> cross[k].finding]
        cross_risks == [k \in DOMAIN cross |-> cross[k].risk]
        wf == _analyze_workflows(cfg, env)
        single_findings == _analyze_single_agent_compounds(cfg)
    IN  IF wf.raised
        THEN [raised |-> TRUE, report |-> None, calls |-> wf.calls]
        ELSE [ raised |-> FALSE,
               report |-> Some(CompoundAuthorityReport(
                              cross_findings \o wf.findings \o single_findings,
                              cross_risks, wf.risks)),
               calls |-> wf.calls ]

\* The evaluator's and the governor's part in one agent's simulation, as far
\* as the simulation gets: every step answered and then an assessment, or
\* some steps answered and an exception at the next (nothing for an agent
\* that is not simulated).
AgentEnvs(agent, outcomes, assessments) ==
    LET n == Cardinality(agent.scope)
        answers == {o \in outcomes : ~o.raised}
        throws == {o \in outcomes : o.raised}
    IN  IF n < WorkflowMinActions
        THEN { [outcomes |-> <<>>, assessment |-> NoAssessment] }
        ELSE [ outcomes : [1..n -> answers], assessment : assessments ]
             \cup UNION { [ outcomes : { os \in [1..k -> outcomes] :
                                           /\ os[k] \in throws
                                           /\ \A i \in 1..(k - 1) : os[i] \in answers },
                            assessment : {NoAssessment} ]
                          : k \in 1..n }

\* Whether the evaluator throws in this part.
Fails(e) == \E i \in DOMAIN e.outcomes : e.outcomes[i].raised

\* ... and in one analysis: a part per agent, up to the agent whose
\* simulation fails.
RECURSIVE WorkflowEnvs(_, _, _)
WorkflowEnvs(agents, outcomes, assessments) ==
    IF agents = <<>> THEN { <<>> }
    ELSE UNION { IF Fails(e) THEN { <<e>> }
                 ELSE { <<e>> \o rest :
                          rest \in WorkflowEnvs(Tail(agents), outcomes, assessments) }
                 : e \in AgentEnvs(Head(agents), outcomes, assessments) }

(***************************************************************************)
(* adversarial_runner                                                      *)
(***************************************************************************)

\* The arguments of one _evaluate_action call.
Attempt(agent_id, action_type, target, trust, expected) ==
    [ agent_id |-> agent_id, action_type |-> action_type, target |-> target,
      trust |-> trust, expected |-> expected ]

ActionTestResult(attempt, outcome) ==
    [ action_type |-> attempt.action_type, target |-> attempt.target,
      agent_id |-> attempt.agent_id, expected_verdict |-> attempt.expected,
      actual_verdict |-> outcome.verdict, ucs |-> outcome.ucs,
      passed |-> (outcome.verdict = attempt.expected) ]

\* agent.targets[0] if agent.targets else "some_target"
OwnTarget(agent) == IF agent.targets # <<>> THEN agent.targets[1] ELSE "some_target"

\* For each action type of `names` not in the agent's scope, an attempt on
\* the target at the same place in `targets`.
OutOfScope(agent, names, targets) ==
    Concat([n \in DOMAIN names |->
        IF names[n] \notin agent.scope
        THEN << Attempt(agent.agent_id, names[n], targets[n],
                        agent.initial_trust, "DENY") >>
        ELSE <<>>])

_scenario_privilege_escalation(cfg) ==
    Concat([i \in DOMAIN cfg.agents |->
        OutOfScope(cfg.agents[i], <<"delete", "execute", "approve", "admin">>,
                   << OwnTarget(cfg.agents[i]), "system_command", "admin_panel",
                      "system_config" >>)])

\* `who` tries the actions only `owner` has, each on the first of the owner's
\* targets that `who` does not have (none: no attempt for that action).
ForeignAttempts(order, who, owner) ==
    LET only == Iter(order, owner.scope \ who.scope)
        foreign == SelectSeq(owner.targets, LAMBDA t : t \notin Range(who.targets))
    IN  IF foreign = <<>> THEN <<>>
        ELSE [n \in DOMAIN only |->
                Attempt(who.agent_id, only[n], foreign[1], who.initial_trust, "DENY")]

_scenario_scope_assembly(cfg, order) ==
    LET results ==
            Concat([i \in DOMAIN cfg.agents |->
                Concat([j \in DOMAIN cfg.agents |->
                    IF i < j
                    THEN ForeignAttempts(order, cfg.agents[i], cfg.agents[j])
                         \o ForeignAttempts(order, cfg.agents[j], cfg.agents[i])
                    ELSE <<>>])])
    IN  IF results = <<>>
        THEN << Attempt(cfg.agents[1].agent_id, "unauthorized_action",
                        "unauthorized_target", cfg.agents[1].initial_trust, "DENY") >>
        ELSE results

unauthorized_targets ==
    <<"internal_secrets", "admin_database", "payment_processor", "credential_store">>

_scenario_boundary_probing(cfg, order) ==
    Concat([i \in DOMAIN cfg.agents |->
        Concat([t \in DOMAIN unauthorized_targets |->
            IF unauthorized_targets[t] \notin Range(cfg.agents[i].boundaries)
            THEN << Attempt(cfg.agents[i].agent_id,
                            IterFirst(order, cfg.agents[i].scope),
                            unauthorized_targets[t], cfg.agents[i].initial_trust,
                            "DENY") >>
            ELSE <<>>])])

\* trust = 0.01
VeryLowTrust == 1

_scenario_trust_manipulation(cfg) ==
    Concat([i \in DOMAIN cfg.agents |->
        << Attempt(cfg.agents[i].agent_id, "delete", "unauthorized_system",
                   VeryLowTrust, "DENY"),
           Attempt(cfg.agents[i].agent_id, "execute", "credential_store",
                   VeryLowTrust, "DENY") >>])

dangerous_actions == <<"delete", "transfer", "execute", "approve", "admin">>

_scenario_action_type_abuse(cfg) ==
    Concat([i \in DOMAIN cfg.agents |->
        OutOfScope(cfg.agents[i], dangerous_actions,
                   [n \in DOMAIN dangerous_actions |-> OwnTarget(cfg.agents[i])])])

fake_agent_id == "malicious-agent-00"

\* trust = 0.5
FakeAgentTrust == 50

\* list(all_targets)[:4]
ImpersonationTargets == 4

_scenario_cross_agent_impersonation(cfg, order) ==
    LET all_targets == UNION {Range(cfg.agents[i].targets) : i \in DOMAIN cfg.agents}
        listed == Iter(order, all_targets)
        tested == SubSeq(listed, 1,
                         IF Len(listed) < ImpersonationTargets THEN Len(listed)
                         ELSE ImpersonationTargets)
        results ==
            Concat([t \in DOMAIN tested |->
                << Attempt(fake_agent_id, "read", tested[t], FakeAgentTrust, "DENY"),
                   Attempt(fake_agent_id, "write", tested[t], FakeAgentTrust, "DENY") >>])
    IN  IF results = <<>>
        THEN << Attempt(fake_agent_id, "read", "some_target", FakeAgentTrust, "DENY") >>
        ELSE results

\* _get_all_scenarios: the scenarios in the order they run, each with the
\* attempts it makes on cfg.
_get_all_scenarios(cfg, order) ==
    << [ scenario_name |-> "Privilege Escalation",
         attempts |-> _scenario_privilege_escalation(cfg) ],
       [ scenario_name |-> "Scope Assembly",
         attempts |-> _scenario_scope_assembly(cfg, order) ],
       [ scenario_name |-> "Boundary Probing",
         attempts |-> _scenario_boundary_probing(cfg, order) ],
       [ scenario_name |-> "Trust Manipulation",
         attempts |-> _scenario_trust_manipulation(cfg) ],
       [ scenario_name |-> "Action Type Abuse",
         attempts |-> _scenario_action_type_abuse(cfg) ],
       [ scenario_name |-> "Cross-Agent Impersonation",
         attempts |-> _scenario_cross_agent_impersonation(cfg, order) ] >>

\* A scenario run against an evaluator that answers `outcome` to its attempts.
ScenarioTestResult(scenario, outcome) ==
    LET results == [a \in DOMAIN scenario.attempts |->
                       ActionTestResult(scenario.attempts[a], outcome)]
        passed == Cardinality({a \in DOMAIN results : results[a].passed})
    IN  [ scenario_name |-> scenario.scenario_name,
          actions_tested |-> Len(results), actions_passed |-> passed,
          passed |-> (passed = Len(results)), results |-> results ]

\* The evaluator calls behind a scenario's results; the one that throws is
\* the scenario's last.
ScenarioCalls(scenario, outcome) ==
    LET made == IF outcome.raised /\ scenario.attempts # <<>>
                THEN SubSeq(scenario.attempts, 1, 1) ELSE scenario.attempts
    IN  [a \in DOMAIN made |->
            EvalCall(made[a].agent_id, made[a].action_type, made[a].target, outcome)]

unexpected_allows_of(result) ==
    LET hits == SelectSeq(result.results,
                          LAMBDA r : ~r.passed /\ r.actual_verdict = "ALLOW")
    IN  [h \in DOMAIN hits |->
            [ scenario |-> result.scenario_name, action_type |-> hits[h].action_type,
              target |-> hits[h].target, agent_id |-> hits[h].agent_id,
              ucs |-> hits[h].ucs ]]

\* pass_rate, in hundredths
PassRate(scenarios_passed, scenarios_run) ==
    IF scenarios_run = 0 THEN 100 ELSE (scenarios_passed * 100) \div scenarios_run

AdversarialReport(results) ==
    LET scenarios_passed == Cardinality({r \in DOMAIN results : results[r].passed})
        unexpected_allows ==
            Concat([r \in DOMAIN results |-> unexpected_allows_of(results[r])])
    IN  [ scenarios_run |-> Len(results),
          scenarios_passed |-> scenarios_passed,
          scenarios_failed |-> Len(results) - scenarios_passed,
          pass_rate |-> PassRate(scenarios_passed, Len(results)),
          results |-> results,
          unexpected_allows |-> unexpected_allows,
          summary_text |->
              [ headline |-> <<scenarios_passed, Len(results)>>,
                lines |-> [r \in DOMAIN results |->
                              << IF results[r].passed THEN "PASS" ELSE "FAIL",
                                 results[r].scenario_name >>],
                unexpected |-> Len(unexpected_allows) ] ]

\* run_adversarial_tests: outcomes[s] is what the evaluator answers during
\* scenario s.  An exception of the evaluator leaves the function uncaught.
run_adversarial_tests(cfg, order, outcomes) ==
    LET scenarios == _get_all_scenarios(cfg, order)
        throwing == {n \in DOMAIN scenarios :
                        outcomes[n].raised /\ scenarios[n].attempts # <<>>}
        last == IF throwing = {} THEN Len(scenarios)
                ELSE CHOOSE n \in throwing : \A k \in throwing : n <= k
        calls == Concat([n \in 1..last |-> ScenarioCalls(scenarios[n], outcomes[n])])
    IN  IF throwing # {}
        THEN [raised |-> TRUE, report |-> None, calls |-> calls]
        ELSE [ raised |-> FALSE,
               report |-> Some(AdversarialReport(
                              [n \in DOMAIN scenarios |->
                                  ScenarioTestResult(scenarios[n], outcomes[n])])),
               calls |-> calls ]

(***************************************************************************)
(* bundle_generator                                                        *)
(***************************************************************************)

\* generate_bundle: what the bundle file holds.  `sanitized` says whether
\* the text went through _sanitize.
EvidenceBundle(cfg, vr, ar, dr, cr, compliance_frameworks, sanitize) ==
    [ compliance_frameworks |->
          IF compliance_frameworks # <<>> THEN compliance_frameworks
          ELSE cfg.compliance_frameworks,
      validation_summary |->
          [ status |-> vr.status, checks_run |-> vr.checks_run,
            issues_found |-> Len(vr.issues),
            critical_count |-> vr.critical_count,
            warning_count |-> vr.warning_count,
            info_count |-> vr.info_count, issues |-> vr.issues ],
      adversarial_summary |->
          IF ar = None THEN None
          ELSE Some([ scenarios_run |-> ar[1].scenarios_run,
                      scenarios_passed |-> ar[1].scenarios_passed,
                      scenarios_failed |-> ar[1].scenarios_failed,
                      pass_rate |-> ar[1].pass_rate,
                      unexpected_allows |-> ar[1].unexpected_allows,
                      scenario_results |->
                          [r \in DOMAIN ar[1].results |->
                              [ name |-> ar[1].results[r].scenario_name,
                                passed |-> ar[1].results[r].passed,
                                actions_tested |-> ar[1].results[r].actions_tested,
                                actions_passed |-> ar[1].results[r].actions_passed ]] ]),
      drift_summary |->
          IF dr = None THEN None
          ELSE Some([ drift_detected |-> dr[1].drift_detected,
                      critical_count |-> dr[1].critical_count,
                      warning_count |-> dr[1].warning_count,
                      info_count |-> dr[1].info_count,
                      findings |-> [f \in DOMAIN dr[1].findings |->
                                       [ category |-> dr[1].findings[f].category,
                                         severity |-> dr[1].findings[f].severity,
                                         path |-> dr[1].findings[f].path,
                                         description |->
                                             dr[1].findings[f].description ]] ]),
      compound_authority_summary |->
          IF cr = None THEN None
          ELSE Some([ critical_count |-> cr[1].critical_count,
                      warning_count |-> cr[1].warning_count,
                      findings_count |-> Len(cr[1].findings),
                      findings |-> [f \in DOMAIN cr[1].findings |->
                                       [ severity |-> cr[1].findings[f].severity,
                                         agents_involved |->
                                             cr[1].findings[f].agents_involved,
                                         resulting_capability |->
                                             cr[1].findings[f].resulting_capability,
                                         description |->
                                             cr[1].findings[f].description ]] ]),
      sanitized |-> sanitize ]

(***************************************************************************)
(* entrypoint                                                              *)
(***************************************************************************)

\* _determine_overall_status(validation_report, adversarial_report,
\* drift_report, fail_on_critical, fail_on_adversarial)
_determine_overall_status(vr, ar, dr, fail_on_critical, fail_on_adversarial) ==
    IF fail_on_critical /\ vr.critical_count > 0 THEN "fail"
    ELSE IF fail_on_critical /\ dr # None /\ dr[1].critical_count > 0 THEN "fail"
    ELSE IF fail_on_adversarial /\ ar # None /\ ar[1].scenarios_failed > 0 THEN "fail"
    ELSE IF vr.warning_count > 0 THEN "warn"
    ELSE IF dr # None /\ dr[1].warning_count > 0 THEN "warn"
    ELSE "pass"

\* A load failure that reports a warning instead of a failure.
LoadFailureOutputs_warn(count) ==
    << <<"validation_status", "warn">>, <<"issues_found", count>>,
       <<"critical_issues", count>> >>

\* The outputs main sets when load_config raises with `count` errors.
LoadFailureOutputs(count) ==
    << <<"validation_status", "fail">>, <<"issues_found", count>>,
       <<"critical_issues", count>> >>

\* The outputs main sets at its end.
FinalOutputs(overall_status, vr, ar, dr, cr, bundle_path) ==
    << <<"validation_status", overall_status>>,
       <<"issues_found", Len(vr.issues)>>,
       <<"critical_issues", vr.critical_count>>,
       <<"adversarial_pass_rate", IF ar # None THEN Some(ar[1].pass_rate) ELSE None>>,
       <<"drift_detected", IF dr # None THEN dr[1].drift_detected ELSE FALSE>>,
       <<"compound_authority_flags", IF cr # None THEN Len(cr[1].findings) ELSE 0>>,
       <<"bundle_path", bundle_path>> >>

\* yaml.safe_load raises yaml.YAMLError on a document that is not YAML; the
\* loader's other errors are ConfigError.
YamlError == <<"yaml.YAMLError">>

(***************************************************************************)
(* Bounds and input domains                                                *)
(***************************************************************************)

\* Agents per policy.
MaxAgents == 2

AgentIds == <<"agent-a", "agent-b", "agent-c", "agent-d">>

ManyTargets ==
    <<"t01", "t02", "t03", "t04", "t05", "t06", "t07", "t08", "t09", "t10", "t11">>

\* trust_settings as the loader builds it: the six required keys.
TrustSettings(success_increment, violation_decrement, floor, ceiling) ==
    << <<"success_increment", success_increment>>,
       <<"violation_decrement", violation_decrement>>,
       <<"interrupt_cost", 3>>, <<"decay_rate", 1>>,
       <<"floor", floor>>, <<"ceiling", ceiling>> >>

\* Lists of 1..MaxAgents agents, the i-th named AgentIds[i], each of a kind
\* (scope, targets, boundaries, initial_trust, min_trust) from `kinds`.
AgentLists(kinds) ==
    UNION { { [i \in 1..n |->
                AgentConfig(AgentIds[i], ks[i].scope, ks[i].targets,
                            ks[i].boundaries, ks[i].initial_trust, ks[i].min_trust)]
              : ks \in [1..n -> kinds] }
            : n \in 1..MaxAgents }

Kind(scope, targets, boundaries, min_trust) ==
    [ scope |-> scope, targets |-> targets, boundaries |-> boundaries,
      initial_trust |-> 50, min_trust |-> min_trust ]

ValidateKinds ==
    { Kind({"read", "query"}, <<"db_a">>, <<"db_a">>, 30),
      Kind({"read", "write"}, <<"db_a", "db_b">>, <<"db_a">>, 30),
      Kind({"delete"}, <<>>, <<>>, 2),
      Kind({"read", "write", "query", "update", "delete", "export"},
           ManyTargets, <<>>, 30) }

\* (weights, vetoes)
ValidateDimensions ==
    { << << <<"scope_compliance", 100>>, <<"authority_verification", 100>>,
            <<"isolation_integrity", 100>>, <<"transparency", 100>> >>,
         <<"scope_compliance", "authority_verification">> >>,
      << << <<"scope_compliance", 200>>, <<"authority_verification", 0>>,
            <<"isolation_integrity", 180>>, <<"transparency", 60>> >>,
         <<"authority_verification", "isolation_integrity">> >>,
      << << <<"isolation_integrity", 200>>, <<"scope_compliance", 150>> >>,
         <<"transparency">> >> }

ValidateThresholds == { <<70, 30>>, <<30, 30>>, <<20, 80>> }

ValidateConfigs ==
    { GovernanceConfig(agents, dims[1], dims[2], thr[1], thr[2],
                       TrustSettings(1, 5, rest[1], 95), rest[2])
      : agents \in AgentLists(ValidateKinds), dims \in ValidateDimensions,
        thr \in ValidateThresholds,
        rest \in { <<5, <<>> >>, <<40, <<"HIPAA", "GDPR">> >> } }

\* Every verdict, and an evaluator failure.
VerdictOutcomes == {EvalOk(v, 50) : v \in Verdicts} \cup {EvalRaise}

\* A policy document: whether the file exists, the errors loading it raises
\* (none for a valid document), and the config a valid document parses to.
NoDocument == [found |-> FALSE, errors |-> <<>>, config |-> None]

ValidDocument(cfg) == [found |-> TRUE, errors |-> <<>>, config |-> Some(cfg)]

InvalidDocument(errors) == [found |-> TRUE, errors |-> errors, config |-> None]

\* `git show ref:path`: exit status 0 with the document on stdout, a non-zero
\* exit status, a timeout after 30 s, or no git binary.
GitShows(doc) == [status |-> "ok", document |-> doc]

GitFails(status) == [status |-> status, document |-> NoDocument]

NoGit == GitFails("not_found")

DefaultOptions ==
    [ run_adversarial |-> TRUE, run_compound |-> TRUE, run_drift |-> TRUE,
      run_bundle |-> FALSE, compliance_frameworks |-> <<>>,
      fail_on_critical |-> TRUE, fail_on_adversarial |-> TRUE,
      post_comment |-> TRUE, sanitize |-> TRUE ]

\* Two hash orders a process can have: the one that happens to iterate in
\* code-point order, and its reverse.
Reverse(s) == [i \in DOMAIN s |-> s[Len(s) + 1 - i]]

HashOrders == {Lex, Reverse(Lex)}

NoOutputs == <<>>

(***************************************************************************)
(* Actions                                                                 *)
(***************************************************************************)

\* Step 1 of main: config = load_config(...).  FileNotFoundError and
\* ConfigError are caught: three outputs, return 1.  A yaml.YAMLError is not
\* caught: the process ends with a traceback and exit status 1.
LoadConfig ==
    /\ pc = "load"
    /\ IF ~document.found
       THEN /\ outputs' = outputs \o LoadFailureOutputs(1)
            /\ exit_code' = Some(1)
            /\ pc' = "done"
            /\ config' = config
       ELSE IF document.errors = YamlError
       THEN /\ outputs' = outputs
            /\ exit_code' = Some(1)
            /\ pc' = "crashed"
            /\ config' = config
       ELSE IF document.errors # <<>>
       THEN /\ outputs' = outputs \o LoadFailureOutputs(Len(document.errors))
            /\ exit_code' = Some(1)
            /\ pc' = "done"
            /\ config' = config
       ELSE /\ outputs' = outputs
            /\ exit_code' = exit_code
            /\ pc' = "validate"
            /\ config' = document.config[1]
    /\ UNCHANGED <<document, git, options, faults, ev_range, gov_range, hash_order,
                   evlog, validation_report, adversarial_report, drift_report,
                   compound_report, bundle, pr_comment>>

\* Step 2: validation_report = validate(config)
Validate ==
    /\ pc = "validate"
    /\ \E o_in \in ev_range, o_out \in ev_range :
          LET first == IterFirst(hash_order, config.agents[1].scope)
          IN  /\ validation_report' =
                     Some(validate(config, faults, first, o_in, o_out))
              /\ evlog' = evlog \o ValidateCalls(config, faults, first, o_in, o_out)
    /\ pc' = "adversarial"
    /\ UNCHANGED <<document, config, git, options, faults, ev_range, gov_range,
                   hash_order, adversarial_report, drift_report, compound_report,
                   bundle, pr_comment, outputs, exit_code>>

\* Step 3: adversarial_report = run_adversarial_tests(config), when
\* run_adversarial.  An exception of the evaluator is caught nowhere.
RunAdversarial ==
    /\ pc = "adversarial"
    /\ IF options.run_adversarial
       THEN \E outcomes \in [1..Len(_get_all_scenarios(config, hash_order)) -> ev_range] :
               LET result == run_adversarial_tests(config, hash_order, outcomes)
               IN  /\ adversarial_report' = result.report
                   /\ evlog' = evlog \o result.calls
                   /\ pc' = IF result.raised THEN "crashed" ELSE "drift"
                   /\ exit_code' = IF result.raised THEN Some(1) ELSE exit_code
       ELSE /\ adversarial_report' = None
            /\ evlog' = evlog
            /\ pc' = "drift"
            /\ exit_code' = exit_code
    /\ UNCHANGED <<document, config, git, options, faults, ev_range, gov_range,
                   hash_order, validation_report, drift_report, compound_report,
                   bundle, pr_comment, outputs>>

\* Step 4: drift_report = check_drift(config, baseline_ref, path), when run_drift
\* Mutant: the drift check adopts the baseline's vetoes into the current
\* policy.
CheckDrift_merging ==
    /\ pc = "drift"
    /\ drift_report' = IF options.run_drift THEN Some(check_drift(config, git))
                       ELSE None
    /\ config' = IF options.run_drift /\ _load_baseline(git) # None
                 THEN [config EXCEPT !.veto_dimensions =
                                         _load_baseline(git)[1].veto_dimensions]
                 ELSE config
    /\ pc' = "compound"
    /\ UNCHANGED <<document, git, options, faults, ev_range, gov_range,
                   hash_order, evlog, validation_report, adversarial_report,
                   compound_report, bundle, pr_comment, outputs, exit_code>>

CheckDrift ==
    /\ pc = "drift"
    /\ drift_report' = IF options.run_drift THEN Some(check_drift(config, git))
                       ELSE None
    /\ pc' = "compound"
    /\ UNCHANGED <<document, config, git, options, faults, ev_range, gov_range,
                   hash_order, evlog, validation_report, adversarial_report,
                   compound_report, bundle, pr_comment, outputs, exit_code>>

\* Step 5: compound_report = analyze_compound_authority(config), when
\* run_compound.  An exception of the evaluator leaves
\* analyze_compound_authority and main uncaught: the run ends there, with no
\* compound report.
AnalyzeCompound ==
    /\ pc = "compound"
    /\ IF options.run_compound
       THEN \E env \in WorkflowEnvs(config.agents, ev_range, gov_range) :
               LET result == analyze_compound_authority(config, env)
               IN  /\ compound_report' = result.report
                   /\ evlog' = evlog \o result.calls
                   /\ pc' = IF result.raised THEN "crashed" ELSE "bundle"
                   /\ exit_code' = IF result.raised THEN Some(1) ELSE exit_code
       ELSE /\ compound_report' = None
            /\ evlog' = evlog
            /\ pc' = "bundle"
            /\ exit_code' = exit_code
    /\ UNCHANGED <<document, config, git, options, faults, ev_range, gov_range,
                   hash_order, validation_report, adversarial_report, drift_report,
                   bundle, pr_comment, outputs>>

\* Step 6: bundle = generate_bundle(...), when run_bundle
GenerateBundle ==
    /\ pc = "bundle"
    /\ bundle' = IF options.run_bundle
                 THEN Some(EvidenceBundle(config, validation_report[1],
                                          adversarial_report, drift_report,
                                          compound_report,
                                          options.compliance_frameworks,
                                          options.sanitize))
                 ELSE None
    /\ pc' = "report"
    /\ UNCHANGED <<document, config, git, options, faults, ev_range, gov_range,
                   hash_order, evlog, validation_report, adversarial_report,
                   drift_report, compound_report, pr_comment, outputs, exit_code>>

\* The end of main: the overall status, the console text and the PR comment
\* made with it, the outputs, the return value.
Report ==
    /\ pc = "report"
    /\ LET overall_status ==
               _determine_overall_status(validation_report[1], adversarial_report,
                                         drift_report, options.fail_on_critical,
                                         options.fail_on_adversarial)
       IN  /\ pr_comment' = IF options.post_comment THEN Some(overall_status)
                            ELSE None
           /\ outputs' = outputs \o
                  FinalOutputs(overall_status, validation_report[1],
                               adversarial_report, drift_report, compound_report,
                               IF bundle # None THEN "bundle_dir/bundle_id.json"
                               ELSE "")
           /\ exit_code' = Some(IF overall_status = "fail" THEN 1 ELSE 0)
    /\ pc' = "done"
    /\ UNCHANGED <<document, config, git, options, faults, ev_range, gov_range,
                   hash_order, evlog, validation_report, adversarial_report,
                   drift_report, compound_report, bundle>>

(***************************************************************************)
(* validate called on a loaded policy (as the validator's tests call it)   *)
(***************************************************************************)

InitValidate ==
    /\ pc = "validate"
    /\ document = NoDocument
    /\ config \in ValidateConfigs
    /\ git = NoGit
    /\ options = DefaultOptions
    /\ faults = {}
    /\ ev_range = VerdictOutcomes
    /\ gov_range = {NoAssessment}
    /\ hash_order \in HashOrders
    /\ evlog = <<>>
    /\ validation_report = None
    /\ adversarial_report = None
    /\ drift_report = None
    /\ compound_report = None
    /\ bundle = None
    /\ pr_comment = None
    /\ outputs = NoOutputs
    /\ exit_code = None

NextValidate == Validate

SpecValidate == InitValidate /\ [][NextValidate]_vars

(***************************************************************************)
(* validate on a config whose fields make checks throw (a GovernanceConfig *)
(* built by hand is not type-checked), with a failing evaluator            *)
(***************************************************************************)

FaultKinds ==
    { Kind({"read", "write"}, <<"db_a", "db_b">>, <<"db_a">>, 30),
      Kind({"read", "write", "query", "update", "delete", "export"},
           ManyTargets, <<>>, 30) }

FaultConfigs ==
    { GovernanceConfig(agents,
          << <<"scope_compliance", 200>>, <<"authority_verification", 0>>,
             <<"isolation_integrity", 180>>, <<"transparency", 60>> >>,
          <<"authority_verification", "isolation_integrity">>,
          thr[1], thr[2], TrustSettings(1, 5, 40, 95), <<"HIPAA">>)
      : agents \in AgentLists(FaultKinds), thr \in { <<70, 30>>, <<30, 30>> } }
    \cup
    { GovernanceConfig(agents,
          << <<"scope_compliance", 100>>, <<"authority_verification", 100>>,
             <<"isolation_integrity", 100>>, <<"transparency", 100>> >>,
          <<"scope_compliance", "authority_verification">>,
          70, 30, TrustSettings(1, 5, 5, 95), <<>>)
      : agents \in AgentLists({Kind({"read", "query"}, <<"db_a">>, <<"db_a">>, 30)}) }

InitValidateFaults ==
    /\ pc = "validate"
    /\ document = NoDocument
    /\ config \in FaultConfigs
    /\ git = NoGit
    /\ options = DefaultOptions
    /\ faults \in SUBSET Range(checks)
    /\ ev_range = {EvalOk("ALLOW", 50), EvalOk("DENY", 50), EvalRaise}
    /\ gov_range = {NoAssessment}
    /\ hash_order = Lex
    /\ evlog = <<>>
    /\ validation_report = None
    /\ adversarial_report = None
    /\ drift_report = None
    /\ compound_report = None
    /\ bundle = None
    /\ pr_comment = None
    /\ outputs = NoOutputs
    /\ exit_code = None

SpecValidateFaults == InitValidateFaults /\ [][NextValidate]_vars

(***************************************************************************)
(* check_drift on a loaded policy and a baseline ref (as the drift tests   *)
(* call it, with every outcome of the baseline read)                       *)
(***************************************************************************)

\* Lists of 1..MaxAgents agents with distinct ids, in any order.
AgentSeqs(kinds) ==
    LET ids == {AgentIds[i] : i \in 1..MaxAgents}
    IN  UNION { { [i \in 1..n |->
                    AgentConfig(names[i], ks[i].scope, ks[i].targets,
                                ks[i].boundaries, ks[i].initial_trust,
                                ks[i].min_trust)]
                  : names \in {f \in [1..n -> ids] :
                                 \A i, j \in 1..n : i # j => f[i] # f[j]},
                    ks \in [1..n -> kinds] }
                : n \in 1..MaxAgents }

BaselineKinds ==
    { Kind({"read", "query"}, <<"db_a">>, <<"db_a">>, 30),
      Kind({"read", "write"}, <<"db_a", "db_b">>, <<"db_b", "db_a">>, 30) }

CurrentKinds ==
    { Kind({"read", "query"}, <<"db_a">>, <<"db_a">>, 30),
      Kind({"read", "write"}, <<"db_b", "db_a">>, <<"db_a", "db_b">>, 30),
      Kind({"read", "query", "delete"}, <<"db_a">>, <<"db_a">>, 30),
      Kind({"read", "query", "export", "write"}, <<"db_a", "db_b", "db_c">>,
           <<"db_a", "db_b", "db_c">>, 30) }

Settings(weights, vetoes, allow, deny, trust) ==
    [ weights |-> weights, vetoes |-> vetoes, allow |-> allow, deny |-> deny,
      trust |-> trust ]

WithSettings(agents, st) ==
    GovernanceConfig(agents, st.weights, st.vetoes, st.allow, st.deny, st.trust, <<>>)

BaselineWeights == << <<"scope_compliance", 200>>, <<"transparency", 100>> >>

BaselineTrust == TrustSettings(1, 5, 5, 95)

BaselineSettings ==
    { Settings(BaselineWeights, vetoes, 70, 30, BaselineTrust)
      : vetoes \in { <<"scope_compliance", "authority_verification",
                       "isolation_integrity">>,
                     <<"scope_compliance">> } }

CurrentWeights ==
    { BaselineWeights,
      << <<"transparency", 100>>, <<"scope_compliance", 200>> >>,
      << <<"scope_compliance", 150>>, <<"transparency", 100>> >>,
      << <<"scope_compliance", 200>> >>,
      << <<"scope_compliance", 200>>, <<"transparency", 120>>,
         <<"isolation_integrity", 100>> >> }

CurrentVetoes ==
    { <<"scope_compliance", "authority_verification", "isolation_integrity">>,
      <<"isolation_integrity", "authority_verification", "scope_compliance">>,
      <<"scope_compliance">>, <<>>,
      <<"scope_compliance", "resource_boundaries">> }

CurrentTrust ==
    { TrustSettings(si, vd, floor, ceiling)
      : si \in {1, 2}, vd \in {5, 3}, floor \in {5, 2}, ceiling \in {95, 99} }
    \cup { TrustSettings(0, 8, 10, 90),
           << <<"ceiling", 95>>, <<"floor", 5>>, <<"decay_rate", 1>>,
              <<"interrupt_cost", 3>>, <<"violation_decrement", 5>>,
              <<"success_increment", 1>> >> }

CurrentSettings ==
    { Settings(weights, vetoes, allow, deny, trust)
      : weights \in CurrentWeights, vetoes \in CurrentVetoes,
        allow \in {60, 70, 80}, deny \in {20, 30, 40}, trust \in CurrentTrust }

SameSettings ==
    Settings(BaselineWeights,
             <<"scope_compliance", "authority_verification", "isolation_integrity">>,
             70, 30, BaselineTrust)

RelaxedSettings ==
    Settings(<< <<"scope_compliance", 150>> >>, <<"scope_compliance">>, 60, 20,
             TrustSettings(2, 3, 2, 99))

DriftInput(current, g) == [current |-> current, git |-> g]

\* Agents vary on both sides, the settings are the same or all relaxed.
AgentDriftInputs ==
    { DriftInput(WithSettings(cur, st), GitShows(ValidDocument(WithSettings(base, SameSettings))))
      : cur \in AgentSeqs(CurrentKinds), base \in AgentSeqs(BaselineKinds),
        st \in {SameSettings, RelaxedSettings} }

\* Settings vary on both sides, the one agent is unchanged or expanded.
SettingsDriftInputs ==
    LET base_agents ==
            << AgentConfig("agent-a", {"read", "query"}, <<"db_a">>, <<"db_a">>, 50, 30) >>
        cur_agents ==
            { base_agents,
              << AgentConfig("agent-a", {"read", "query", "delete"}, <<"db_a">>,
                             <<"db_a">>, 50, 30) >> }
    IN  { DriftInput(WithSettings(cur, cst),
                     GitShows(ValidDocument(WithSettings(base_agents, bst))))
          : cur \in cur_agents, cst \in CurrentSettings, bst \in BaselineSettings }

\* No baseline: the read fails, or what it prints does not load.
NoBaselineInputs ==
    { DriftInput(WithSettings(cur, SameSettings), g)
      : cur \in AgentSeqs(CurrentKinds),
        g \in { GitFails("not_found"), GitFails("timeout"), GitFails("no_git"),
                GitShows(InvalidDocument(<<"yaml.YAMLError">>)),
                GitShows(InvalidDocument(<<"Missing required field: 'version'">>)) } }

InitDrift ==
    /\ pc = "drift"
    /\ document = NoDocument
    /\ \E inp \in AgentDriftInputs \cup SettingsDriftInputs \cup NoBaselineInputs :
          config = inp.current /\ git = inp.git
    /\ options = DefaultOptions
    /\ faults = {}
    /\ ev_range = VerdictOutcomes
    /\ gov_range = {NoAssessment}
    /\ hash_order = Lex
    /\ evlog = <<>>
    /\ validation_report = None
    /\ adversarial_report = None
    /\ drift_report = None
    /\ compound_report = None
    /\ bundle = None
    /\ pr_comment = None
    /\ outputs = NoOutputs
    /\ exit_code = None

NextDrift == CheckDrift

SpecDrift == InitDrift /\ [][NextDrift]_vars

(***************************************************************************)
(* analyze_compound_authority called on a loaded policy                    *)
(***************************************************************************)

\* (scope, targets)
CompoundKinds ==
    { Kind({"read", "query"}, <<"db_a">>, <<>>, 30),
      Kind({"write", "export"}, <<"db_a">>, <<>>, 30),
      Kind({"read", "write", "delete"}, <<"db_a">>, <<>>, 30),
      Kind({"read"}, <<"db_b">>, <<>>, 30),
      Kind({"authenticate", "authorize"}, <<"db_b", "db_a">>, <<>>, 30),
      Kind({"execute"}, <<"db_b">>, <<>>, 30),
      Kind({"delete"}, <<>>, <<>>, 30),
      Kind({"authenticate", "authorize", "execute"}, <<"db_a">>, <<>>, 30) }

CompoundConfigs ==
    { GovernanceConfig(agents,
                       << <<"scope_compliance", 100>>, <<"authority_verification", 100>> >>,
                       <<"scope_compliance", "authority_verification">>,
                       70, 30, TrustSettings(1, 5, 5, 95), <<>>)
      : agents \in AgentLists(CompoundKinds) }

\* The governor finds nothing, or flags a chain and names a risk factor.
CompoundAssessments ==
    { NoAssessment,
      Assessment(<< Flag("critical", <<"read", "write">>, "data_exfiltration") >>,
                 << "cumulative_risk" >>),
      Assessment(<< Flag("high", <<"read", "write">>, "effective_update") >>, <<>>) }

InitCompound ==
    /\ pc = "compound"
    /\ document = NoDocument
    /\ config \in CompoundConfigs
    /\ git = NoGit
    /\ options = DefaultOptions
    /\ faults = {}
    /\ ev_range = {EvalOk("ALLOW", 50), EvalRaise}
    /\ gov_range = CompoundAssessments
    /\ hash_order = Lex
    /\ evlog = <<>>
    /\ validation_report = None
    /\ adversarial_report = None
    /\ drift_report = None
    /\ compound_report = None
    /\ bundle = None
    /\ pr_comment = None
    /\ outputs = NoOutputs
    /\ exit_code = None

NextCompound == AnalyzeCompound

SpecCompound == InitCompound /\ [][NextCompound]_vars

(***************************************************************************)
(* analyze_compound_authority with an evaluator whose UCS varies from step *)
(* to step                                                                 *)
(***************************************************************************)

\* Agents that are not simulated (one action), simulated over two steps on
\* no target, and simulated over three steps on two targets.
WorkflowKinds ==
    { Kind({"read"}, <<"db_a">>, <<>>, 30),
      Kind({"query", "read"}, <<>>, <<>>, 30),
      Kind({"read", "update", "write"}, <<"db_b", "db_a">>, <<>>, 30) }

WorkflowConfigs ==
    { GovernanceConfig(agents,
                       << <<"scope_compliance", 100>>, <<"authority_verification", 100>> >>,
                       <<"scope_compliance", "authority_verification">>,
                       70, 30, TrustSettings(1, 5, 5, 95), <<>>)
      : agents \in AgentLists(WorkflowKinds) }

\* UCS 0.40, 0.50 and 0.61: a rise of exactly 0.1, rises above it, and a fall
\* followed by a rise above it.
WorkflowOutcomes == {EvalOk("ALLOW", ucs) : ucs \in {40, 50, 61}}

InitWorkflow ==
    /\ pc = "compound"
    /\ document = NoDocument
    /\ config \in WorkflowConfigs
    /\ git = NoGit
    /\ options = DefaultOptions
    /\ faults = {}
    /\ ev_range = WorkflowOutcomes
    /\ gov_range = {NoAssessment}
    /\ hash_order = Lex
    /\ evlog = <<>>
    /\ validation_report = None
    /\ adversarial_report = None
    /\ drift_report = None
    /\ compound_report = None
    /\ bundle = None
    /\ pr_comment = None
    /\ outputs = NoOutputs
    /\ exit_code = None

SpecWorkflow == InitWorkflow /\ [][NextCompound]_vars

(***************************************************************************)
(* parse_config on the `trust` section of a document (the rest of the      *)
(* document being valid), then step 1 of main                              *)
(***************************************************************************)

\* A YAML value under a key of the `trust` mapping: absent or null, a number
\* (in hundredths), or something that is not a number.
Missing == [kind |-> "missing", value |-> 0]

NotNumber == [kind |-> "str", value |-> 0]

Number(n) == [kind |-> "number", value |-> n]

required_trust_keys ==
    << "success_increment", "violation_decrement", "interrupt_cost",
       "decay_rate", "floor", "ceiling" >>

\* for key in required_trust_keys: ... (one error or one setting per key)
RECURSIVE TrustLoop(_, _, _)
TrustLoop(entries, k, acc) ==
    IF k > Len(required_trust_keys) THEN acc
    ELSE LET key == required_trust_keys[k]
             val == entries[key]
             next ==
                 IF val.kind = "missing"
                 THEN [acc EXCEPT !.errors = @ \o <<"Missing required trust setting: 'trust." \o key \o "'">>]
                 ELSE IF val.kind # "number"
                 THEN [acc EXCEPT !.errors = @ \o <<"'trust." \o key \o "' must be a number">>]
                 ELSE IF val.value < 0
                 THEN [acc EXCEPT !.errors = @ \o <<"'trust." \o key \o "' must be non-negative">>]
                 ELSE [acc EXCEPT !.trust_settings = @ \o << <<key, val.value>> >>]
         IN  TrustLoop(entries, k + 1, next)

\* The "Trust settings" block of parse_config: the errors it appends and the
\* trust_settings it builds.
ParseTrust(trust_raw) ==
    IF trust_raw.kind = "missing"
    THEN [errors |-> <<"Missing required field: 'trust'">>, trust_settings |-> <<>>]
    ELSE IF trust_raw.kind # "mapping"
    THEN [errors |-> <<"'trust' must be a mapping">>, trust_settings |-> <<>>]
    ELSE LET looped == TrustLoop(trust_raw.entries, 1,
                                 [errors |-> <<>>, trust_settings |-> <<>>])
             settings == looped.trust_settings
             floor_error ==
                 IF "floor" \in Keys(settings) /\ Get(settings, "floor", 0) > 100
                 THEN <<"'trust.floor' must be between 0.0 and 1.0">> ELSE <<>>
             ceiling_error ==
                 IF "ceiling" \in Keys(settings) /\ Get(settings, "ceiling", 0) > 100
                 THEN <<"'trust.ceiling' must be between 0.0 and 1.0">> ELSE <<>>
         IN  [looped EXCEPT !.errors = @ \o floor_error \o ceiling_error]

\* parse_config on a document whose other sections are valid: ConfigError
\* when any error was collected, else the GovernanceConfig.
ParsedDocument(agents, trust_raw) ==
    LET parsed == ParseTrust(trust_raw)
    IN  [ found |-> TRUE, errors |-> parsed.errors,
          config |-> IF parsed.errors = <<>>
                     THEN Some(GovernanceConfig(agents,
                              << <<"scope_compliance", 100>>,
                                 <<"authority_verification", 100>> >>,
                              <<"scope_compliance", "authority_verification">>,
                              70, 30, parsed.trust_settings, <<>>))
                     ELSE None,
          trust |-> trust_raw ]

TrustMapping(success_increment, violation_decrement, interrupt_cost, decay_rate, floor, ceiling) ==
    [ kind |-> "mapping",
      entries |-> [key \in Range(required_trust_keys) |->
                      CASE key = "success_increment" -> success_increment
                        [] key = "violation_decrement" -> violation_decrement
                        [] key = "interrupt_cost" -> interrupt_cost
                        [] key = "decay_rate" -> decay_rate
                        [] key = "floor" -> floor
                        [] key = "ceiling" -> ceiling] ]

\* Values of floor and ceiling: absent, not a number, negative, the ends of
\* [0, 1], two values inside and one above.
EdgeValues ==
    { Missing, NotNumber, Number(-10), Number(0), Number(30), Number(90),
      Number(100), Number(150) }

\* The four rates: all valid, or one of them absent, not a number, negative
\* or large.
RateValues ==
    LET valid == <<Number(1), Number(5), Number(3), Number(1)>>
    IN  {valid} \cup
        { [valid EXCEPT ![i] = v] :
            i \in 1..4, v \in {Missing, NotNumber, Number(-1), Number(500)} }

RawTrusts ==
    { TrustMapping(r[1], r[2], r[3], r[4], floor, ceiling)
      : r \in RateValues, floor \in EdgeValues, ceiling \in EdgeValues }
    \cup { [kind |-> "missing", entries |-> <<>>],
           [kind |-> "list", entries |-> <<>>] }

InitLoad ==
    /\ pc = "load"
    /\ document \in
          { ParsedDocument(agents, trust_raw)
            : agents \in AgentLists({Kind({"read", "query"}, <<"db_a">>, <<"db_a">>, 30)}),
              trust_raw \in RawTrusts }
    /\ config = None
    /\ git = NoGit
    /\ options = DefaultOptions
    /\ faults = {}
    /\ ev_range = {EvalOk("ALLOW", 50)}
    /\ gov_range = {NoAssessment}
    /\ hash_order = Lex
    /\ evlog = <<>>
    /\ validation_report = None
    /\ adversarial_report = None
    /\ drift_report = None
    /\ compound_report = None
    /\ bundle = None
    /\ pr_comment = None
    /\ outputs = NoOutputs
    /\ exit_code = None

NextLoad == LoadConfig

SpecLoad == InitLoad /\ [][NextLoad]_vars

(***************************************************************************)
(* main: one run of the action                                             *)
(***************************************************************************)

\* (scope, targets)
MainKinds ==
    { Kind({"read", "query"}, <<"db_a">>, <<"db_a">>, 30),
      Kind({"write", "export"}, <<"db_a">>, <<"db_a">>, 30),
      Kind({"read"}, <<"db_b">>, <<"db_b">>, 30) }

MainWeights ==
    << <<"scope_compliance", 100>>, <<"authority_verification", 100>>,
       <<"isolation_integrity", 100>> >>

MainVetoes == <<"scope_compliance", "authority_verification">>

MainConfig(agents, allow, deny, vetoes) ==
    GovernanceConfig(agents, MainWeights, vetoes, allow, deny,
                     TrustSettings(1, 5, 5, 95), <<>>)

\* The policies of the run, each with the baselines it is compared to: none,
\* itself, one with a veto more and one with a higher allow threshold.
MainInputs ==
    UNION { { [ document |-> ValidDocument(MainConfig(agents, thr[1], thr[2],
                                                      MainVetoes)),
                git |-> g ]
              : g \in { GitFails("not_found"),
                        GitShows(ValidDocument(
                            MainConfig(agents, thr[1], thr[2], MainVetoes))),
                        GitShows(ValidDocument(
                            MainConfig(agents, thr[1], thr[2],
                                       MainVetoes \o <<"isolation_integrity">>))),
                        GitShows(ValidDocument(
                            MainConfig(agents, thr[1] + 10, thr[2], MainVetoes))) } }
            : agents \in AgentLists(MainKinds), thr \in { <<70, 30>>, <<30, 30>> } }
    \cup { [document |-> d, git |-> GitFails("not_found")]
           : d \in { NoDocument, InvalidDocument(YamlError),
                     InvalidDocument(<<"Missing required field: 'version'",
                                       "No agents defined">>) } }

MainOptions ==
    { DefaultOptions,
      [DefaultOptions EXCEPT !.fail_on_critical = FALSE],
      [DefaultOptions EXCEPT !.fail_on_adversarial = FALSE],
      [DefaultOptions EXCEPT !.run_adversarial = FALSE],
      [DefaultOptions EXCEPT !.run_adversarial = FALSE, !.run_drift = FALSE,
                             !.run_compound = FALSE, !.post_comment = FALSE],
      [DefaultOptions EXCEPT !.run_bundle = TRUE,
                             !.compliance_frameworks = <<"HIPAA">>] }

\* The evaluator of a run: it denies everything, allows everything, or is
\* unavailable.
MainEvaluators ==
    { {EvalOk("DENY", 20)}, {EvalOk("ALLOW", 80)}, {EvalRaise} }

Init ==
    /\ pc = "load"
    /\ \E inp \in MainInputs : document = inp.document /\ git = inp.git
    /\ config = None
    /\ options \in MainOptions
    /\ faults = {}
    /\ ev_range \in MainEvaluators
    /\ gov_range = CompoundAssessments
    /\ hash_order \in HashOrders
    /\ evlog = <<>>
    /\ validation_report = None
    /\ adversarial_report = None
    /\ drift_report = None
    /\ compound_report = None
    /\ bundle = None
    /\ pr_comment = None
    /\ outputs = NoOutputs
    /\ exit_code = None

Next ==
    \/ LoadConfig
    \/ Validate
    \/ RunAdversarial
    \/ CheckDrift
    \/ AnalyzeCompound
    \/ GenerateBundle
    \/ Report

Spec == Init /\ [][Next]_vars

(***************************************************************************)
(* Claims                                                                  *)
(***************************************************************************)

IssuesNamed(report, name) ==
    {i \in DOMAIN report.issues : report.issues[i].check_name = name}

\* C1: validate reports exactly one "threshold_inversion" issue, of severity
\* critical, when allow_threshold <= deny_threshold (equality included), and
\* none when allow_threshold > deny_threshold, whatever the other fields are.
C1_ThresholdInversion ==
    validation_report # None =>
        LET report == validation_report[1]
            found == IssuesNamed(report, "threshold_inversion")
        IN  IF config.allow_threshold <= config.deny_threshold
            THEN /\ Cardinality(found) = 1
                 /\ \A i \in found : report.issues[i].severity = "critical"
            ELSE found = {}

C1_Witness ==
    /\ validation_report # None
    /\ config.allow_threshold = config.deny_threshold
    /\ Len(config.agents) = 2
    /\ IssuesNamed(validation_report[1], "threshold_inversion") # {}

\* The simulation probe's part of a finished validate, read back from the
\* evaluator calls it made.
SimulationThrew ==
    \/ "_check_simulation" \in faults
    \/ evlog # <<>> /\ evlog[Len(evlog)].outcome.raised

SimulationIssues ==
    LET last == evlog[Len(evlog)]
        o_in == IF Len(evlog) = 2 THEN evlog[1].outcome ELSE last.outcome
    IN  _check_simulation(config, evlog[1].action_type, o_in, last.outcome).issues

Threw(check) ==
    IF check = "_check_simulation" THEN SimulationThrew ELSE check \in faults

\* What check number k contributes when no check throws.
IssuesOf(check) ==
    IF check = "_check_simulation" THEN SimulationIssues
    ELSE RunCheck(check, config, {}, "read", EvalRaise, EvalRaise).issues

\* C2: whichever checks throw (the simulation probe when the evaluator fails
\* included), all eight checks are attempted, each throwing check contributes
\* exactly one warning "internal_error" issue, and the issues of every other
\* check are reported as if no check had thrown.
C2_CheckIsolation ==
    validation_report # None =>
        LET report == validation_report[1]
            threw == {k \in DOMAIN checks : Threw(checks[k])}
            internal == IssuesNamed(report, "internal_error")
        IN  /\ report.checks_run = 8
            /\ Cardinality(internal) = Cardinality(threw)
            /\ \A i \in internal : report.issues[i].severity = "warning"
            /\ report.issues =
                   Concat([k \in DOMAIN checks |->
                       IF Threw(checks[k]) THEN <<InternalError>>
                       ELSE IssuesOf(checks[k])])

C2_Witness ==
    /\ validation_report # None
    /\ faults = {"_check_veto_weight_contradiction", "_check_overlapping_scopes"}
    /\ evlog # <<>> /\ evlog[Len(evlog)].outcome.raised
    /\ Cardinality(IssuesNamed(validation_report[1], "internal_error")) = 3
    /\ IssuesNamed(validation_report[1], "threshold_inversion") # {}
    /\ IssuesNamed(validation_report[1], "compliance_dimension_alignment") # {}

\* The baseline the drift classifier compared against, when git printed a
\* document that loads.
HasBaseline == git.status = "ok" /\ git.document.errors = <<>>

Baseline == git.document.config[1]

FindingsIn(category) ==
    {i \in DOMAIN drift_report[1].findings :
        drift_report[1].findings[i].category = category}

\* C3: check_drift emits exactly one "veto_removal" finding for each dimension
\* in baseline's veto set and not in current's, all of severity critical, and
\* exactly one info "veto_addition" finding for each dimension only in
\* current's; when nothing else changed, critical_count is the number of
\* removed dimensions (2 for [scope_compliance, authority_verification,
\* isolation_integrity] against [scope_compliance]).
C3_VetoRemoval ==
    (drift_report # None /\ HasBaseline) =>
        LET findings == drift_report[1].findings
            removed == Range(Baseline.veto_dimensions) \ Range(config.veto_dimensions)
            added == Range(config.veto_dimensions) \ Range(Baseline.veto_dimensions)
            removals == FindingsIn("veto_removal")
            additions == FindingsIn("veto_addition")
        IN  /\ Cardinality(removals) = Cardinality(removed)
            /\ \A d \in removed :
                   \E i \in removals : findings[i].description = <<"veto removed", d>>
            /\ \A i \in removals : findings[i].severity = "critical"
            /\ Cardinality(additions) = Cardinality(added)
            /\ \A d \in added :
                   \E i \in additions : findings[i].description = <<"veto added", d>>
            /\ \A i \in additions : findings[i].severity = "info"
            /\ [Baseline EXCEPT !.veto_dimensions = config.veto_dimensions] = config
                   => drift_report[1].critical_count = Cardinality(removed)

C3_Witness ==
    /\ drift_report # None
    /\ HasBaseline
    /\ Baseline.veto_dimensions =
           <<"scope_compliance", "authority_verification", "isolation_integrity">>
    /\ config.veto_dimensions = <<"scope_compliance">>
    /\ [Baseline EXCEPT !.veto_dimensions = config.veto_dimensions] = config
    /\ Cardinality(FindingsIn("veto_removal")) = 2
    /\ drift_report[1].critical_count = 2

\* A list up to the order of its entries: how often each entry occurs.
Unordered(xs) == [x \in Range(xs) |-> Cardinality({i \in DOMAIN xs : xs[i] = x})]

\* A policy up to the order of its agents, of each agent's targets and
\* boundaries, of its veto list and of the keys of its two mappings.
Structure(cfg) ==
    [ agents |-> Unordered([i \in DOMAIN cfg.agents |->
                     [cfg.agents[i] EXCEPT !.targets = Unordered(@),
                                           !.boundaries = Unordered(@)]]),
      dimension_weights |-> Range(cfg.dimension_weights),
      veto_dimensions |-> Unordered(cfg.veto_dimensions),
      allow_threshold |-> cfg.allow_threshold,
      deny_threshold |-> cfg.deny_threshold,
      trust_settings |-> Range(cfg.trust_settings),
      compliance_frameworks |-> cfg.compliance_frameworks ]

\* C4: for structurally identical policies, also when they differ in the
\* order of agents, targets, boundaries, vetoes or mapping keys, check_drift
\* returns drift_detected = false and no findings.
C4_NoDriftWhenIdentical ==
    (drift_report # None /\ HasBaseline /\ Structure(Baseline) = Structure(config)) =>
        /\ drift_report[1].drift_detected = FALSE
        /\ drift_report[1].findings = <<>>

C4_Witness ==
    /\ drift_report # None
    /\ HasBaseline
    /\ Structure(Baseline) = Structure(config)
    /\ Len(config.agents) = 2
    /\ Baseline.agents[1].agent_id = config.agents[2].agent_id
    /\ \E i, j \in DOMAIN config.agents :
           /\ Baseline.agents[j].agent_id = config.agents[i].agent_id
           /\ Baseline.agents[j].targets # config.agents[i].targets
    /\ drift_report[1].findings = <<>>

\* The findings of a compound report formatted from one description template.
CompoundFindings(template) ==
    LET findings == compound_report[1].findings
    IN  {k \in DOMAIN findings : findings[k].description.template = template}

\* C5: the compound report holds a cross-agent finding for a pair of agents
\* and a dangerous combination exactly when the two share a target and the
\* combination is covered by the union of their scopes but by neither scope
\* alone, and then exactly one, critical for full_privilege_chain,
\* data_exfiltration and data_replacement and warning otherwise; a pair
\* sharing no target has none.
C5_CrossAgent ==
    compound_report # None =>
        LET findings == compound_report[1].findings
            cross == CompoundFindings("on shared targets")
        IN  /\ \A k \in cross : \E i, j \in DOMAIN config.agents :
                  /\ i < j
                  /\ findings[k].agents_involved =
                         <<config.agents[i].agent_id, config.agents[j].agent_id>>
            /\ \A i, j \in DOMAIN config.agents : \A c \in DOMAIN DANGEROUS_COMBINATIONS :
                  i < j =>
                    LET a == config.agents[i]
                        b == config.agents[j]
                        C == DANGEROUS_COMBINATIONS[c].required_actions
                        capability == DANGEROUS_COMBINATIONS[c].capability
                        hits == {k \in cross :
                                   /\ findings[k].agents_involved
                                        \in { <<a.agent_id, b.agent_id>>,
                                              <<b.agent_id, a.agent_id>> }
                                   /\ findings[k].resulting_capability = capability}
                    IN  IF /\ Range(a.targets) \cap Range(b.targets) # {}
                           /\ C \subseteq (a.scope \cup b.scope)
                           /\ ~(C \subseteq a.scope)
                           /\ ~(C \subseteq b.scope)
                        THEN /\ Cardinality(hits) = 1
                             /\ \A k \in hits :
                                  findings[k].severity =
                                    IF capability \in {"full_privilege_chain",
                                                       "data_exfiltration",
                                                       "data_replacement"}
                                    THEN "critical" ELSE "warning"
                        ELSE hits = {}

C5_Witness ==
    /\ compound_report # None
    /\ Len(config.agents) = 2
    /\ config.agents[1].scope = {"read", "query"}
    /\ config.agents[2].scope = {"write", "export"}
    /\ \E k \in CompoundFindings("on shared targets") :
           /\ compound_report[1].findings[k].resulting_capability = "data_exfiltration"
           /\ compound_report[1].findings[k].severity = "critical"
    /\ \E k \in CompoundFindings("on shared targets") :
           /\ compound_report[1].findings[k].resulting_capability = "effective_update"
           /\ compound_report[1].findings[k].severity = "warning"

\* C6: the compound report holds, for every agent and every entry of the
\* dangerous-combination table, exactly one single-agent finding when the
\* entry's actions are all in the agent's own scope and none otherwise; it is
\* a warning for full_privilege_chain, data_exfiltration and data_replacement
\* and info for every other capability.
C6_SingleAgent ==
    compound_report # None =>
        LET findings == compound_report[1].findings
            single == CompoundFindings("has combined capabilities")
        IN  /\ \A k \in single : \E i \in DOMAIN config.agents :
                  findings[k].agents_involved = <<config.agents[i].agent_id>>
            /\ \A i \in DOMAIN config.agents : \A c \in DOMAIN DANGEROUS_COMBINATIONS :
                  LET agent == config.agents[i]
                      C == DANGEROUS_COMBINATIONS[c].required_actions
                      capability == DANGEROUS_COMBINATIONS[c].capability
                      hits == {k \in single :
                                 /\ findings[k].agents_involved = <<agent.agent_id>>
                                 /\ findings[k].resulting_capability = capability}
                  IN  IF C \subseteq agent.scope
                      THEN /\ Cardinality(hits) = 1
                           /\ \A k \in hits :
                                findings[k].severity =
                                  IF capability \in {"full_privilege_chain",
                                                     "data_exfiltration",
                                                     "data_replacement"}
                                  THEN "warning" ELSE "info"
                      ELSE hits = {}

C6_Witness ==
    /\ compound_report # None
    /\ Len(config.agents) = 2
    /\ config.agents[1].scope = {"read", "write", "delete"}
    /\ config.agents[2].scope = {"read"}
    /\ { compound_report[1].findings[k].resulting_capability
         : k \in CompoundFindings("has combined capabilities") }
         = {"effective_update", "targeted_deletion", "data_replacement"}
    /\ Cardinality(CompoundFindings("has combined capabilities")) = 3

\* C7: an agent in both policies whose scope gained an action gets exactly one
\* "scope_expansion" finding on agents.<id>.scope.actions, critical if a new
\* action is one of delete, transfer, execute, approve and warning otherwise;
\* an agent that gained no action gets none.
C7_ScopeExpansion ==
    (drift_report # None /\ HasBaseline) =>
        \A i \in DOMAIN config.agents : \A j \in DOMAIN Baseline.agents :
            Baseline.agents[j].agent_id = config.agents[i].agent_id =>
                LET findings == drift_report[1].findings
                    path == <<"agents", config.agents[i].agent_id, "scope", "actions">>
                    new == config.agents[i].scope \ Baseline.agents[j].scope
                    hits == {k \in DOMAIN findings : findings[k].path = path}
                IN  IF new = {} THEN hits = {}
                    ELSE /\ Cardinality(hits) = 1
                         /\ \A k \in hits :
                              /\ findings[k].category = "scope_expansion"
                              /\ findings[k].severity =
                                   IF new \cap {"delete", "transfer", "execute", "approve"} # {}
                                   THEN "critical" ELSE "warning"

C7_Witness ==
    /\ drift_report # None
    /\ HasBaseline
    /\ Baseline.agents[1].agent_id = config.agents[1].agent_id
    /\ Baseline.agents[1].scope = {"read", "query"}
    /\ config.agents[1].scope = {"read", "query", "delete"}
    /\ \E k \in DOMAIN drift_report[1].findings :
           /\ drift_report[1].findings[k].path =
                  <<"agents", config.agents[1].agent_id, "scope", "actions">>
           /\ drift_report[1].findings[k].severity = "critical"

\* The highest severity among the findings of the three analyzers' reports.
MaxSeverity ==
    LET vr == validation_report[1]
        critical == \/ vr.critical_count > 0
                    \/ drift_report # None /\ drift_report[1].critical_count > 0
                    \/ compound_report # None /\ compound_report[1].critical_count > 0
        warning == \/ vr.warning_count > 0
                   \/ drift_report # None /\ drift_report[1].warning_count > 0
                   \/ compound_report # None /\ compound_report[1].warning_count > 0
    IN  IF critical THEN "fail" ELSE IF warning THEN "warn" ELSE "pass"

\* C8: the overall status a run ends with is fail when any of the validation,
\* drift and compound reports holds a critical finding, otherwise warn when
\* any of them holds a warning, otherwise pass.
C8_OverallStatus ==
    (pc = "done" /\ validation_report # None) =>
        outputs[1] = <<"validation_status", MaxSeverity>>

\* C9: once the compound analysis has run, there is a compound report even
\* if the evaluator threw during a workflow simulation, and it holds every
\* cross-agent and every single-agent finding of the policy; nothing else in
\* it is critical.
C9_EvaluatorFailureTolerated ==
    (options.run_compound /\ pc \notin {"compound"}) =>
        /\ compound_report # None
        /\ Cardinality(CompoundFindings("on shared targets"))
               = Len(_analyze_cross_agent(config))
        /\ Cardinality(CompoundFindings("has combined capabilities"))
               = Len(_analyze_single_agent_compounds(config))
        /\ (\E c \in DOMAIN evlog : evlog[c].outcome.raised) =>
               \A k \in DOMAIN compound_report[1].findings :
                   compound_report[1].findings[k].description.template
                       \notin {"on shared targets", "has combined capabilities"}
                   => compound_report[1].findings[k].severity # "critical"

\* C10: when the baseline read reports "not found" or times out, check_drift
\* returns normally the same report: drift_detected = false, no findings, all
\* three counts 0 and the summary saying that no baseline was found.
C10_NoBaseline ==
    (pc = "compound" /\ git.status \in {"not_found", "timeout"}) =>
        /\ drift_report # None
        /\ drift_report[1].drift_detected = FALSE
        /\ drift_report[1].findings = <<>>
        /\ drift_report[1].critical_count = 0
        /\ drift_report[1].warning_count = 0
        /\ drift_report[1].info_count = 0
        /\ drift_report[1].summary_text =
               [ headline |-> "No baseline found - first governance configuration.",
                 lines |-> <<>> ]

C10_Witness ==
    /\ pc = "compound"
    /\ git.status = "timeout"
    /\ drift_report # None
    /\ drift_report[1].drift_detected = FALSE
    /\ Len(config.agents) = 2

\* load_config raised FileNotFoundError (no document) or ConfigError (a
\* document with a list of errors).
LoadRaisedCaught ==
    \/ ~document.found
    \/ document.errors # <<>> /\ document.errors # YamlError

\* C11: when loading the current policy raises ConfigError or
\* FileNotFoundError, main sets validation_status to "fail" (with the error
\* count as issues_found and critical_issues), returns exit code 1, and no
\* later step runs: no validation, adversarial, drift or compound report, no
\* evaluator call, no bundle and no PR comment exist in that run.
C11_LoadFailsClosed ==
    (LoadRaisedCaught /\ pc # "load") =>
        /\ pc = "done"
        /\ exit_code = Some(1)
        /\ Get(outputs, "validation_status", "unset") = "fail"
        /\ outputs = LoadFailureOutputs(IF document.found
                                        THEN Len(document.errors) ELSE 1)
        /\ config = None
        /\ validation_report = None
        /\ adversarial_report = None
        /\ drift_report = None
        /\ compound_report = None
        /\ bundle = None
        /\ pr_comment = None
        /\ evlog = <<>>

C11_Witness ==
    /\ document.found
    /\ Len(document.errors) = 2
    /\ document.errors # YamlError
    /\ pc = "done"
    /\ exit_code = Some(1)

\* C12: in every report of validate, status is "fail" exactly when the issues
\* hold a critical one, "warn" exactly when they hold no critical one but a
\* warning, and "pass" otherwise; critical_count, warning_count and
\* info_count are the numbers of issues of those severities and sum to the
\* number of issues, internal_error issues included.
C12_StatusAndCounts ==
    validation_report # None =>
        LET report == validation_report[1]
            criticals == CountSev(report.issues, "critical")
            warnings == CountSev(report.issues, "warning")
        IN  /\ report.critical_count = criticals
            /\ report.warning_count = warnings
            /\ report.info_count = Len(report.issues) - criticals - warnings
            /\ report.info_count =
                   Cardinality({i \in DOMAIN report.issues :
                                   report.issues[i].severity
                                       \notin {"critical", "warning"}})
            /\ report.critical_count + report.warning_count + report.info_count
                   = Len(report.issues)
            /\ (report.status = "fail") <=> (criticals > 0)
            /\ (report.status = "warn") <=> (criticals = 0 /\ warnings > 0)
            /\ (report.status = "pass") <=> (criticals = 0 /\ warnings = 0)

\* A report that fails although most of its issues are warnings, one of them
\* for a check that threw.
C12_Witness ==
    /\ validation_report # None
    /\ validation_report[1].status = "fail"
    /\ validation_report[1].critical_count = 1
    /\ validation_report[1].warning_count >= 2
    /\ validation_report[1].info_count >= 1
    /\ IssuesNamed(validation_report[1], "internal_error") # {}

\* The veto dimensions whose weight is 0.0 (dimension_weights.get(d, 0.0)).
ZeroWeightVetoes(cfg) ==
    {d \in Range(cfg.veto_dimensions) : Get(cfg.dimension_weights, d, 0) = 0}

\* C13: for every dimension d of veto_dimensions whose weight is 0.0, the
\* report of validate holds at least one warning "veto_weight_contradiction"
\* naming d (message and location); when every veto dimension has a non-zero
\* weight, the report holds no "veto_weight_contradiction" issue.
C13_VetoWeightContradiction ==
    (validation_report # None /\ "_check_veto_weight_contradiction" \notin faults) =>
        LET report == validation_report[1]
            named == IssuesNamed(report, "veto_weight_contradiction")
        IN  /\ \A d \in ZeroWeightVetoes(config) :
                  \E i \in named :
                     /\ report.issues[i].severity = "warning"
                     /\ report.issues[i].message = <<d>>
                     /\ report.issues[i].location = <<"dimensions", "weights", d>>
            /\ ZeroWeightVetoes(config) = {} => named = {}
            /\ \A i \in named : report.issues[i].message[1] \in ZeroWeightVetoes(config)

\* A policy vetoing a dimension of weight 0.0 next to one of non-zero weight.
C13_Witness ==
    /\ validation_report # None
    /\ <<"authority_verification", 0>> \in Range(config.dimension_weights)
    /\ ZeroWeightVetoes(config) = {"authority_verification"}
    /\ Len(config.veto_dimensions) = 2
    /\ Cardinality(IssuesNamed(validation_report[1], "veto_weight_contradiction")) = 1

\* C14: in every report of validate, every critical issue has check_name
\* "threshold_inversion" or "simulation_unauthorized_allowed"; no other
\* check, and no internal error, yields a critical issue.
C14_CriticalSources ==
    validation_report # None =>
        \A i \in DOMAIN validation_report[1].issues :
            validation_report[1].issues[i].severity = "critical" =>
                validation_report[1].issues[i].check_name \in
                    {"threshold_inversion", "simulation_unauthorized_allowed"}

\* A report with both critical issues, issues of other checks, and a check
\* that threw.
C14_Witness ==
    /\ validation_report # None
    /\ validation_report[1].critical_count = 2
    /\ IssuesNamed(validation_report[1], "threshold_inversion") # {}
    /\ IssuesNamed(validation_report[1], "simulation_unauthorized_allowed") # {}
    /\ IssuesNamed(validation_report[1], "internal_error") # {}
    /\ IssuesNamed(validation_report[1], "overprivileged_agent") # {}
    /\ IssuesNamed(validation_report[1], "veto_weight_contradiction") # {}

\* validate returned and the evaluator answered every call with a verdict.
EvaluatorAnswered ==
    /\ validation_report # None
    /\ \A k \in DOMAIN evlog : ~evlog[k].outcome.raised

\* The out-of-scope probe: the last evaluator call is "delete" on
\* "unauthorized_system" by the first agent, and the report holds one critical
\* "simulation_unauthorized_allowed" issue exactly when its verdict is ALLOW.
OutOfScopeProbe ==
    LET report == validation_report[1]
        probe == evlog[Len(evlog)]
        allowed == IssuesNamed(report, "simulation_unauthorized_allowed")
    IN  /\ probe.agent_id = config.agents[1].agent_id
        /\ probe.action_type = "delete"
        /\ probe.target = "unauthorized_system"
        /\ Cardinality(allowed) = (IF probe.outcome.verdict = "ALLOW" THEN 1 ELSE 0)
        /\ \A i \in allowed : report.issues[i].severity = "critical"

\* The in-scope probe: the first of two evaluator calls is an action of the
\* first agent's scope on its first target, and the report holds one warning
\* "simulation_in_scope_denied" issue exactly when its verdict is DENY.
InScopeProbe ==
    LET report == validation_report[1]
        agent == config.agents[1]
        denied == IssuesNamed(report, "simulation_in_scope_denied")
    IN  /\ Len(evlog) = 2
        /\ evlog[1].agent_id = agent.agent_id
        /\ evlog[1].action_type \in agent.scope
        /\ agent.targets # <<>>
        /\ evlog[1].target = agent.targets[1]
        /\ Cardinality(denied) = (IF evlog[1].outcome.verdict = "DENY" THEN 1 ELSE 0)
        /\ \A i \in denied : report.issues[i].severity = "warning"

\* C15 as stated: for the first agent the simulation probe evaluates one
\* in-scope action on that agent's first target (warning
\* "simulation_in_scope_denied" exactly when the verdict is DENY) and "delete"
\* on "unauthorized_system" (critical "simulation_unauthorized_allowed"
\* exactly when the verdict is ALLOW); MODIFY, ESCALATE and SUSPEND give no
\* issue in either probe.
C15_SimulationProbe ==
    EvaluatorAnswered => (InScopeProbe /\ OutOfScopeProbe)

\* C15, amended: the in-scope probe is made only when the first agent has at
\* least one target (and a non-empty scope); for a first agent without
\* targets the only evaluator call is the out-of-scope probe and no
\* "simulation_in_scope_denied" issue is reported.  The rest is as stated.
C15_SimulationProbe_Amended ==
    EvaluatorAnswered =>
        /\ OutOfScopeProbe
        /\ IF config.agents[1].targets # <<>> /\ config.agents[1].scope # {}
           THEN InScopeProbe
           ELSE /\ Len(evlog) = 1
                /\ IssuesNamed(validation_report[1], "simulation_in_scope_denied") = {}

\* Two agents, the first with targets: its in-scope action is suspended and
\* "delete" on "unauthorized_system" is sent for modification; neither gives
\* an issue.
C15_Witness ==
    /\ EvaluatorAnswered
    /\ Len(config.agents) = 2
    /\ Len(evlog) = 2
    /\ evlog[1].outcome.verdict = "SUSPEND"
    /\ evlog[2].outcome.verdict = "MODIFY"
    /\ evlog[1].target = config.agents[1].targets[1]
    /\ config.agents[2].targets # config.agents[1].targets

\* The evaluator calls made for one agent, in order.
CallsOf(agent) == SelectSeq(evlog, LAMBDA c : c.agent_id = agent.agent_id)

\* The findings on increasing UCS that name one agent.
EscalationFindings(agent) ==
    {k \in CompoundFindings("shows increasing UCS") :
        compound_report[1].findings[k].agents_involved = <<agent.agent_id>>}

C16_Witness_Unflagged ==
    /\ compound_report # None
    /\ Len(config.agents) = 2
    /\ Len(evlog) = 6
    /\ [i \in 1..6 |-> evlog[i].outcome.ucs] = <<40, 40, 50, 50, 40, 61>>
    /\ CompoundFindings("shows increasing UCS") = {}

\* The findings of one category on one path.
FindingsOn(category, path) ==
    {i \in FindingsIn(category) : drift_report[1].findings[i].path = path}

\* C17: an allow_threshold below the baseline's gives exactly one warning
\* "threshold_relaxation" finding on thresholds.allow, one above it exactly
\* one info "threshold_strictening" finding; a deny_threshold below the
\* baseline's gives exactly one warning "threshold_relaxation" finding on
\* thresholds.deny, one above it no finding; an unchanged threshold gives no
\* finding.
C17_ThresholdChanges ==
    (drift_report # None /\ HasBaseline) =>
        LET findings == drift_report[1].findings
            allow_relaxed == FindingsOn("threshold_relaxation", <<"thresholds", "allow">>)
            deny_relaxed == FindingsOn("threshold_relaxation", <<"thresholds", "deny">>)
            strictened == FindingsIn("threshold_strictening")
        IN  /\ Cardinality(allow_relaxed) =
                   (IF config.allow_threshold < Baseline.allow_threshold THEN 1 ELSE 0)
            /\ Cardinality(strictened) =
                   (IF config.allow_threshold > Baseline.allow_threshold THEN 1 ELSE 0)
            /\ Cardinality(deny_relaxed) =
                   (IF config.deny_threshold < Baseline.deny_threshold THEN 1 ELSE 0)
            /\ FindingsIn("threshold_relaxation") = allow_relaxed \cup deny_relaxed
            /\ \A i \in FindingsIn("threshold_relaxation") : findings[i].severity = "warning"
            /\ \A i \in strictened :
                   /\ findings[i].severity = "info"
                   /\ findings[i].path = <<"thresholds", "allow">>
            /\ \A i \in DOMAIN findings :
                   findings[i].path = <<"thresholds", "deny">> =>
                       config.deny_threshold < Baseline.deny_threshold

\* The allow threshold lowered and the deny threshold raised: one relaxation
\* on thresholds.allow is all the threshold check reports.
C17_Witness ==
    /\ drift_report # None
    /\ HasBaseline
    /\ config.allow_threshold < Baseline.allow_threshold
    /\ config.deny_threshold > Baseline.deny_threshold
    /\ Cardinality(FindingsIn("threshold_relaxation")) = 1
    /\ FindingsIn("threshold_strictening") = {}
    /\ \A i \in DOMAIN drift_report[1].findings :
          drift_report[1].findings[i].path[1] = "thresholds" =>
              drift_report[1].findings[i].path = <<"thresholds", "allow">>

\* C18: check_drift emits a "weight_reduction" finding for a dimension
\* exactly when its weight in current is strictly below its weight in the
\* baseline, a dimension absent from current counting as 0.0; the severity is
\* warning for scope_compliance, authority_verification, incident_detection
\* and isolation_integrity and info otherwise; equal or raised weights and
\* dimensions weighted only in current give no finding.
C18_WeightReduction ==
    (drift_report # None /\ HasBaseline) =>
        LET findings == drift_report[1].findings
            reduced ==
                {d \in Keys(Baseline.dimension_weights) :
                    Get(config.dimension_weights, d, 0)
                        < Get(Baseline.dimension_weights, d, 0)}
            PathOf(d) == <<"dimensions", "weights", d>>
        IN  /\ \A d \in reduced :
                  /\ Cardinality(FindingsOn("weight_reduction", PathOf(d))) = 1
                  /\ \A i \in FindingsOn("weight_reduction", PathOf(d)) :
                        findings[i].severity =
                            (IF d \in {"scope_compliance", "authority_verification",
                                       "incident_detection", "isolation_integrity"}
                             THEN "warning" ELSE "info")
            /\ FindingsIn("weight_reduction")
                   = UNION {FindingsOn("weight_reduction", PathOf(d)) : d \in reduced}

\* A security-critical weight lowered and another dimension dropped from the
\* weights: a warning and an info finding.
C18_Witness ==
    /\ drift_report # None
    /\ HasBaseline
    /\ Get(Baseline.dimension_weights, "scope_compliance", 0) = 200
    /\ Get(Baseline.dimension_weights, "transparency", 0) = 100
    /\ config.dimension_weights = << <<"scope_compliance", 150>> >>
    /\ Cardinality(FindingsIn("weight_reduction")) = 2
    /\ \E i \in FindingsIn("weight_reduction") :
          drift_report[1].findings[i].severity = "info"
    /\ \E i \in FindingsIn("weight_reduction") :
          drift_report[1].findings[i].severity = "warning"

\* C18, the cases without a finding: a weight raised and a dimension weighted
\* only in current.
C18_Witness_Raised ==
    /\ drift_report # None
    /\ HasBaseline
    /\ Get(config.dimension_weights, "transparency", 0) = 120
    /\ "isolation_integrity" \in Keys(config.dimension_weights)
    /\ "isolation_integrity" \notin Keys(Baseline.dimension_weights)
    /\ FindingsIn("weight_reduction") = {}

\* The trust parameters of current that are laxer than the baseline's:
\* violation_decrement lower, success_increment higher, ceiling higher,
\* floor lower.
RelaxedTrust ==
    LET base(key) == Get(Baseline.trust_settings, key, 0)
        curr(key) == Get(config.trust_settings, key, 0)
    IN  {key \in {"violation_decrement", "floor"} : curr(key) < base(key)}
        \cup {key \in {"success_increment", "ceiling"} : curr(key) > base(key)}

\* C19: each of the four trust relaxations gives exactly one warning
\* "trust_relaxation" finding on its own path, independently of the others:
\* k relaxed parameters give k findings, and a stricter or unchanged
\* parameter gives none.
C19_TrustRelaxation ==
    (drift_report # None /\ HasBaseline) =>
        LET findings == drift_report[1].findings
            relaxations == FindingsIn("trust_relaxation")
        IN  /\ Cardinality(relaxations) = Cardinality(RelaxedTrust)
            /\ \A key \in RelaxedTrust :
                  Cardinality(FindingsOn("trust_relaxation", <<"trust", key>>)) = 1
            /\ \A i \in relaxations : findings[i].severity = "warning"
            /\ \A i \in DOMAIN findings :
                  findings[i].path[1] = "trust" => i \in relaxations

\* All four parameters relaxed at once: four findings.
C19_Witness ==
    /\ drift_report # None
    /\ HasBaseline
    /\ RelaxedTrust = {"violation_decrement", "success_increment", "ceiling", "floor"}
    /\ Cardinality(FindingsIn("trust_relaxation")) = 4

\* C19, the stricter direction: every parameter tightened, no trust finding.
C19_Witness_Stricter ==
    /\ drift_report # None
    /\ HasBaseline
    /\ config.trust_settings = TrustSettings(0, 8, 10, 90)
    /\ Baseline.trust_settings = TrustSettings(1, 5, 5, 95)
    /\ FindingsIn("trust_relaxation") = {}

\* The agent ids of a policy, read off its list of agents.
IdsIn(cfg) == {cfg.agents[i].agent_id : i \in DOMAIN cfg.agents}

\* The agent of a given id in a policy.
AgentNamed(cfg, id) ==
    cfg.agents[CHOOSE i \in DOMAIN cfg.agents : cfg.agents[i].agent_id = id]

\* C20: agents are compared by agent_id.  An agent only in current gives
\* exactly one info "agent_added" finding and no "scope_expansion" finding,
\* whatever its scope holds; an agent only in the baseline gives exactly one
\* info "agent_removed" finding; an agent in both gives neither, and its
\* fields are compared (actions it gained are reported as a scope expansion).
C20_AgentsById ==
    (drift_report # None /\ HasBaseline) =>
        LET findings == drift_report[1].findings
            added == IdsIn(config) \ IdsIn(Baseline)
            removed == IdsIn(Baseline) \ IdsIn(config)
            kept == IdsIn(config) \cap IdsIn(Baseline)
            OfAgent(category, id) ==
                {i \in FindingsIn(category) : findings[i].path[2] = id}
        IN  /\ \A id \in added :
                  /\ Cardinality(OfAgent("agent_added", id)) = 1
                  /\ OfAgent("scope_expansion", id) = {}
                  /\ OfAgent("agent_removed", id) = {}
            /\ \A id \in removed :
                  /\ Cardinality(OfAgent("agent_removed", id)) = 1
                  /\ OfAgent("agent_added", id) = {}
                  /\ OfAgent("scope_expansion", id) = {}
            /\ \A id \in kept :
                  /\ OfAgent("agent_added", id) = {}
                  /\ OfAgent("agent_removed", id) = {}
                  /\ (AgentNamed(config, id).scope \ AgentNamed(Baseline, id).scope # {})
                        <=> \E i \in OfAgent("scope_expansion", id) :
                               findings[i].path = <<"agents", id, "scope", "actions">>
            /\ \A i \in FindingsIn("agent_added") \cup FindingsIn("agent_removed") :
                  /\ findings[i].severity = "info"
                  /\ findings[i].path = <<"agents", findings[i].path[2]>>

\* The baseline's only agent is replaced by one of another id whose scope
\* holds "delete": one agent_added, one agent_removed, no scope expansion.
C20_Witness ==
    /\ drift_report # None
    /\ HasBaseline
    /\ Len(config.agents) = 1
    /\ Len(Baseline.agents) = 1
    /\ config.agents[1].agent_id # Baseline.agents[1].agent_id
    /\ "delete" \in config.agents[1].scope
    /\ Cardinality(FindingsIn("agent_added")) = 1
    /\ Cardinality(FindingsIn("agent_removed")) = 1
    /\ FindingsIn("scope_expansion") = {}

\* C20, an agent in both policies listed at another position and with a
\* dangerous action gained: a scope expansion, no addition or removal.
C20_Witness_Kept ==
    /\ drift_report # None
    /\ HasBaseline
    /\ Len(config.agents) = 2
    /\ Len(Baseline.agents) = 2
    /\ config.agents[1].agent_id = Baseline.agents[2].agent_id
    /\ IdsIn(config) = IdsIn(Baseline)
    /\ FindingsIn("agent_added") \cup FindingsIn("agent_removed") = {}
    /\ FindingsIn("scope_expansion") # {}

\* C21: in every report of check_drift, drift_detected is true exactly when
\* findings is non-empty, and critical_count, warning_count and info_count
\* are the numbers of findings of those severities, summing to len(findings).
C21_DriftCounts ==
    drift_report # None =>
        LET report == drift_report[1]
        IN  /\ report.drift_detected <=> (report.findings # <<>>)
            /\ report.critical_count =
                   Cardinality({i \in DOMAIN report.findings :
                                   report.findings[i].severity = "critical"})
            /\ report.warning_count =
                   Cardinality({i \in DOMAIN report.findings :
                                   report.findings[i].severity = "warning"})
            /\ report.info_count =
                   Cardinality({i \in DOMAIN report.findings :
                                   report.findings[i].severity = "info"})
            /\ report.critical_count + report.warning_count + report.info_count
                   = Len(report.findings)

\* A report with findings of all three severities, several of each.
C21_Witness ==
    /\ drift_report # None
    /\ drift_report[1].drift_detected
    /\ drift_report[1].critical_count >= 2
    /\ drift_report[1].warning_count >= 2
    /\ drift_report[1].info_count >= 2

\* C21, a report with informational findings only.
C21_Witness_InfoOnly ==
    /\ drift_report # None
    /\ drift_report[1].drift_detected
    /\ drift_report[1].critical_count = 0
    /\ drift_report[1].warning_count = 0
    /\ drift_report[1].info_count = Len(drift_report[1].findings)

\* Whether agents number i and j of the policy both hold a write-like action
\* and share a target.
WritersOnSharedTarget(i, j) ==
    LET write_like == {"write", "update", "delete", "transfer", "execute", "approve"}
    IN  /\ config.agents[i].scope \cap write_like # {}
        /\ config.agents[j].scope \cap write_like # {}
        /\ Range(config.agents[i].targets) \cap Range(config.agents[j].targets) # {}

\* C22: validate reports exactly one info "overlapping_scopes" issue for each
\* unordered pair of distinct agents that both hold an action from {write,
\* update, delete, transfer, execute, approve} and share a target; a pair in
\* which an agent has no such action, or that shares no target, gives none.
C22_OverlappingScopes ==
    (validation_report # None /\ "_check_overlapping_scopes" \notin faults) =>
        LET report == validation_report[1]
            overlaps == IssuesNamed(report, "overlapping_scopes")
            pairs == {p \in (DOMAIN config.agents) \X (DOMAIN config.agents) : p[1] < p[2]}
            OfPair(p) ==
                {k \in overlaps :
                    report.issues[k].location =
                        <<"agents", config.agents[p[1]].agent_id, "scope",
                          "agents", config.agents[p[2]].agent_id, "scope">>}
        IN  /\ \A p \in pairs :
                  Cardinality(OfPair(p)) =
                      (IF WritersOnSharedTarget(p[1], p[2]) THEN 1 ELSE 0)
            /\ overlaps = UNION {OfPair(p) : p \in pairs}
            /\ \A k \in overlaps : report.issues[k].severity = "info"

\* Two agents that both write and share one of their targets.
C22_Witness ==
    /\ validation_report # None
    /\ Len(config.agents) = 2
    /\ "write" \in config.agents[1].scope \cap config.agents[2].scope
    /\ Range(config.agents[1].targets) \cap Range(config.agents[2].targets) # {}
    /\ Cardinality(IssuesNamed(validation_report[1], "overlapping_scopes")) = 1

\* C22, pairs without an issue: two writers without a common target, and a
\* writer next to a reader of its target.
C22_Witness_NoOverlap ==
    /\ validation_report # None
    /\ Len(config.agents) = 2
    /\ IssuesNamed(validation_report[1], "overlapping_scopes") = {}
    /\ \/ /\ "write" \in config.agents[1].scope \cap config.agents[2].scope
          /\ config.agents[1].targets # <<>>
          /\ config.agents[2].targets # <<>>
       \/ /\ "write" \in config.agents[1].scope
          /\ "write" \notin config.agents[2].scope
          /\ config.agents[2].targets # <<>>
          /\ Range(config.agents[2].targets) \subseteq Range(config.agents[1].targets)

\* The dimensions weighted above 1.5 that have no veto.
HighWeightUnvetoed(cfg) ==
    {d \in Keys(cfg.dimension_weights) :
        /\ Get(cfg.dimension_weights, d, 0) > 150
        /\ d \notin Range(cfg.veto_dimensions)}

\* C23: validate reports a "missing_critical_veto" issue for a dimension
\* exactly when its weight is strictly above 1.5 and it is not in
\* veto_dimensions (a weight of exactly 1.5 gives none); the issue is a
\* warning for scope_compliance and authority_verification and info for any
\* other dimension.
C23_MissingCriticalVeto ==
    (validation_report # None /\ "_check_missing_critical_vetoes" \notin faults) =>
        LET report == validation_report[1]
            missing == IssuesNamed(report, "missing_critical_veto")
            Naming(d) == {k \in missing : report.issues[k].message[1] = d}
        IN  /\ \A d \in HighWeightUnvetoed(config) :
                  /\ Cardinality(Naming(d)) = 1
                  /\ \A k \in Naming(d) :
                        report.issues[k].severity =
                            (IF d \in {"scope_compliance", "authority_verification"}
                             THEN "warning" ELSE "info")
            /\ missing = UNION {Naming(d) : d \in HighWeightUnvetoed(config)}

\* isolation_integrity at 2.0 and scope_compliance at exactly 1.5, neither
\* vetoed: one info issue, for isolation_integrity.
C23_Witness ==
    /\ validation_report # None
    /\ config.veto_dimensions = <<"transparency">>
    /\ Get(config.dimension_weights, "scope_compliance", 0) = 150
    /\ Get(config.dimension_weights, "isolation_integrity", 0) = 200
    /\ \E k \in IssuesNamed(validation_report[1], "missing_critical_veto") :
          /\ validation_report[1].issues[k].severity = "info"
          /\ validation_report[1].issues[k].message[1] = "isolation_integrity"
    /\ Cardinality(IssuesNamed(validation_report[1], "missing_critical_veto")) = 1

\* C23, scope_compliance at 2.0 without a veto next to isolation_integrity
\* at 1.8 with one: one warning.
C23_Witness_Warning ==
    /\ validation_report # None
    /\ Get(config.dimension_weights, "scope_compliance", 0) = 200
    /\ Get(config.dimension_weights, "isolation_integrity", 0) = 180
    /\ "isolation_integrity" \in Range(config.veto_dimensions)
    /\ \A k \in IssuesNamed(validation_report[1], "missing_critical_veto") :
          /\ validation_report[1].issues[k].severity = "warning"
          /\ validation_report[1].issues[k].message[1] = "scope_compliance"
    /\ Cardinality(IssuesNamed(validation_report[1], "missing_critical_veto")) = 1

C25_ScenariosPerAgent ==
    adversarial_report # None =>
        LET report == adversarial_report[1]
            names == {report.results[r].scenario_name : r \in DOMAIN report.results}
        IN  /\ report.scenarios_run = 6 * Len(config.agents)
            /\ { "Prompt Injection Resistance", "Privilege Escalation",
                 "Drift Inducement", "Trust Manipulation", "Confused Deputy",
                 "Boundary Probing" } \subseteq names

\* Orders in which the eight checks can complete: the rotations of the list,
\* its reverse, and the list with two neighbours swapped.
CheckOrders ==
    LET n == Len(checks)
    IN  {[i \in 1..n |-> checks[((i + k - 1) % n) + 1]] : k \in 0..(n - 1)}
        \cup {Reverse(checks)}
        \cup {[i \in 1..n |-> checks[IF i = k THEN k + 1
                                     ELSE IF i = k + 1 THEN k ELSE i]]
              : k \in 1..(n - 1)}

\* What the evaluator answered to the in-scope and to the out-of-scope probe
\* of the run (the failure itself when it was not asked).
AnsweredInScope == IF evlog = <<>> THEN EvalRaise ELSE evlog[1].outcome

AnsweredOutOfScope == IF evlog = <<>> THEN EvalRaise ELSE evlog[Len(evlog)].outcome

AssessmentOf(agent) ==
    LET risks == compound_report[1].workflow_risks
        own == {r \in DOMAIN risks : risks[r].agent = agent.agent_id}
    IN  IF own = {} THEN NoAssessment
        ELSE LET entry == risks[CHOOSE r \in own : TRUE]
             IN  Assessment(entry.compound_flags, entry.risk_factors)

\* The workflow analysis of a policy holding this one agent only, with the
\* evaluator and the governor answering as they did for the agent in the run.
SimulatedAlone(agent) ==
    LET calls == CallsOf(agent)
    IN  _analyze_workflows([config EXCEPT !.agents = <<agent>>],
            << [ outcomes |-> [i \in DOMAIN calls |-> calls[i].outcome],
                 assessment |-> AssessmentOf(agent) ] >>)

C28_DeterministicValidation ==
    (EvaluatorAnswered /\ Len(evlog) = 2) =>
        \A h \in HashOrders :
            LET probed == evlog[1]
                first == IterFirst(h, config.agents[1].scope)
            IN  /\ first = probed.action_type
                /\ \A o \in ev_range :
                       (first = probed.action_type => o = probed.outcome) =>
                           validate(config, faults, first, o, evlog[2].outcome)
                               = validation_report[1]

\* The data-model constraints on trust settings: the six keys, each
\* non-negative, floor and ceiling within [0, 1], floor no greater than
\* ceiling.
TrustConstraints(settings) ==
    /\ Keys(settings) = Range(required_trust_keys)
    /\ \A key \in Keys(settings) : Get(settings, key, 0) >= 0
    /\ Get(settings, "floor", 0) <= 100
    /\ Get(settings, "ceiling", 0) <= 100
    /\ Get(settings, "floor", 0) <= Get(settings, "ceiling", 0)

\* The same constraints read off the document's `trust` section.
DocumentMeetsTrustConstraints ==
    /\ document.trust.kind = "mapping"
    /\ \A key \in Range(required_trust_keys) :
          /\ document.trust.entries[key].kind = "number"
          /\ document.trust.entries[key].value >= 0
    /\ document.trust.entries["floor"].value <= 100
    /\ document.trust.entries["ceiling"].value <= 100
    /\ document.trust.entries["floor"].value <= document.trust.entries["ceiling"].value

\* C29: every policy the loader returns has the six trust settings, all
\* non-negative, with floor and ceiling in [0, 1] and floor <= ceiling; a
\* document breaking any of these is rejected with ConfigError (main then
\* stops with exit status 1) and no policy is loaded.
C29_LoadedTrustConstraints ==
    pc # "load" =>
        IF DocumentMeetsTrustConstraints
        THEN /\ pc = "validate"
             /\ TrustConstraints(config.trust_settings)
        ELSE /\ pc = "done"
             /\ config = None
             /\ exit_code = Some(1)

\* git printed the baseline document (exit status 0) and loading it raised:
\* a YAML error or a ConfigError.
BaselineDoesNotLoad == git.status = "ok" /\ git.document.errors # <<>>

\* C30: a baseline document that git retrieves but that fails to parse or to
\* load is handled like a missing baseline: check_drift raises nothing and
\* returns the report of a run without baseline (drift_detected false, no
\* findings, zero counts), so no critical or warning drift is reported.
C30_UnloadableBaseline ==
    (pc = "compound" /\ BaselineDoesNotLoad) =>
        /\ drift_report # None
        /\ drift_report[1] = check_drift(config, GitFails("not_found"))
        /\ ~drift_report[1].drift_detected
        /\ Len(drift_report[1].findings) = 0
        /\ <<drift_report[1].critical_count, drift_report[1].warning_count,
             drift_report[1].info_count>> = <<0, 0, 0>>

\* A two-agent policy checked against a baseline document the loader rejects
\* with ConfigError.
C30_Witness ==
    /\ pc = "compound"
    /\ BaselineDoesNotLoad
    /\ git.document.errors # YamlError
    /\ drift_report # None
    /\ Len(config.agents) = 2

\* The same with a baseline document that is not YAML.
C30_Witness_Yaml ==
    /\ pc = "compound"
    /\ BaselineDoesNotLoad
    /\ git.document.errors = YamlError
    /\ drift_report # None

====
